---- MODULE Spec2Model ----
(***************************************************************************)
(* Verification model of the intervoice backend (Claude code path).        *)
(*                                                                         *)
(*                                                                         *)
(* Python values are abstracted to the "kinds" the code distinguishes:     *)
(* the workflow and the agents only ever test isinstance(..., dict/list),  *)
(* truthiness and the presence of the "error" key.                         *)
(***************************************************************************)
EXTENDS Integers, Sequences, FiniteSets, TLC

VARIABLES
    \* Part 1: run_preparation_workflow (coordinator/preparation_workflow_claude.py)
    wf_pc,             \* where the coroutine run_preparation_workflow is suspended
    wf_args,           \* the arguments of the call
    session_id,        \* local session_id  ("None" = Python None)
    workflow_id,       \* local workflow_id ("unbound" = not in locals())
    personal_summary,  \* local personal_summary (a value kind, "unbound" before)
    industry_faqs,     \* local industry_faqs
    questions_data,    \* local questions_data
    answers_result,    \* local answers_result
    threads,           \* the worker threads of asyncio.to_thread, one per agent call
    invoked,           \* log: agents started, in order, with their arguments
    returned,          \* log: agents whose call has returned (or raised), in order
    save_pe_calls,     \* number of calls of _save_personal_experience_to_database
    db_qas,            \* Firestore: recommended QAs, set of <<user_id, workflow_id>>
    db_pe,             \* Firestore: personal experience, set of <<user_id, workflow_id>>
    wf_result          \* the dict returned by run_preparation_workflow ("none" before)

wfVars == <<wf_pc, wf_args, session_id, workflow_id, personal_summary,
            industry_faqs, questions_data, answers_result, threads, invoked,
            returned, save_pe_calls, db_qas, db_pe, wf_result>>

(* Part 2: one invocation of a Claude agent function (summarize_resume,       *)
(* search_interview_questions, generate_custom_questions,                    *)
(* generate_personalized_answers).                                           *)
VARIABLES
    ag_name,           \* which agent function is called
    ag_in,             \* its arguments (value kinds) and whether a client can be built
    ag_pc,             \* "idle", "json_call", "text_call" (awaiting the model) or "done"
    ag_calls,          \* number of requests sent to the model API
    ag_replies,        \* how these requests ended, in order
    ag_out             \* how the call ended: a returned value or a raised exception

agVars == <<ag_name, ag_in, ag_pc, ag_calls, ag_replies, ag_out>>

(* Part 3: the tag-preserving validation of the answer generator             *)
VARIABLES
    tg_questions,      \* questions_list: the input questions
    tg_reply,          \* the answer array parsed from the model's reply
    tg_path,           \* "primary" (generate_json) or "fallback" (_extract_json_fallback)
    tg_pc,             \* "input" or "done"
    tg_result          \* the validated list returned

tgVars == <<tg_questions, tg_reply, tg_path, tg_pc, tg_result>>

(* Part 4: the interview judge, _run_judge_from_session_claude               *)
VARIABLES
    jd_pc,             \* "idle", "generating", "validating", "cleanup" or "done"
    jd_parse,          \* status reported by parse_and_validate_feedback ("none" before)
    jd_feedback,       \* local feedback_json: None or the feedback dict (its resources)
    jd_i,              \* position of the link-validation loop in the resources
    jd_checks,         \* per checked resource: its original link, whether the check
                       \* failed, and what search_ddgs returned for it
    jd_events,         \* log of the post-processing steps, in order
    jd_pending,        \* the value of the return statement, held while finally runs
    jd_result,         \* the value returned to the caller
    jd_deletes,        \* number of session_service.delete_session attempts
    jd_delete_raised,  \* whether the last delete_session attempt raised
    db_feedback        \* Firestore: the feedback saved for the session

jdVars == <<jd_pc, jd_parse, jd_feedback, jd_i, jd_checks, jd_events, jd_pending,
            jd_result, jd_deletes, jd_delete_raised, db_feedback>>

(* Part 5: deduplicate_resources applied to a feedback dict                  *)
VARIABLES
    dd_in,             \* the feedback dict passed to deduplicate_resources
    dd_out,            \* the feedback dict after one application
    dd_again,          \* the feedback dict after a second application
    dd_pc              \* "input", "once" or "twice"

ddVars == <<dd_in, dd_out, dd_again, dd_pc>>

(* Part 6: backend/config.py (the .env file, ClaudeConfig) and the           *)
(* provider-selecting factory functions                                      *)
VARIABLES
    process_env,       \* the environment variables the process was started with
    dotenv,            \* the settings written in backend/.env
    environ,           \* os.environ
    cfg_pc,            \* "start" or "imported": whether backend.config has been imported
    cfg_loaded,        \* whether set_google_cloud_env_vars has been called
    cfg,               \* the class attributes of ClaudeConfig
    cfg_reads,         \* log: attributes of ClaudeConfig read by agents and clients
    fc_pc,             \* the factory call: "idle", "in_impl" or "done"
    fc_call,           \* the factory function called and its arguments
    fc_invoked,        \* log: implementations invoked, with the arguments they got
    fc_result          \* what the factory function returned (or raised)

cfVars == <<process_env, dotenv, environ, cfg_pc, cfg_loaded, cfg, cfg_reads,
            fc_pc, fc_call, fc_invoked, fc_result>>

(* Part 7: the module-level client of services/claude_client.py              *)
VARIABLES
    gc_api_key,        \* bool(ClaudeConfig.ANTHROPIC_API_KEY)
    gc_client,         \* the global _claude_client: 0 is None, n the n-th ClaudeClient
    gc_constructed,    \* number of ClaudeClient objects constructed so far
    gc_pc,             \* per thread, its position in get_claude_client
    gc_local,          \* per thread, the ClaudeClient it has just constructed
    gc_calls,          \* number of calls of get_claude_client begun
    gc_returns         \* log: how each call ended, raising or returning a client

gcVars == <<gc_api_key, gc_client, gc_constructed, gc_pc, gc_local, gc_calls,
            gc_returns>>

(* Part 8: one interview session (agents/interviewer/agent_claude.py): the   *)
(* coroutines agent_to_client_messaging (a2c) and client_to_agent_messaging  *)
(* (c2a) on one websocket and one session                                    *)
VARIABLES
    iv_now,                \* datetime.now(timezone.utc), in minutes
    iv_start_time,         \* session.state["start_time"]
    iv_duration_minutes,   \* session.state["duration_minutes"]
    iv_duration,           \* session.state["duration"] (-1: not set)
    ws_state,              \* the websocket: "open" or "closed"
    ws_close_code,         \* the code it was closed with (0: not closed)
    ws_sent,               \* the messages sent to the client, in order
    a2c_pc,                \* where agent_to_client_messaging is suspended
    a2c_steps,             \* what a2c did since it found the session expired
    c2a_pc,                \* where client_to_agent_messaging is suspended
    c2a_msg,               \* the client message c2a handles (or handled last)
    c2a_steps,             \* what c2a did for that message
    client_pending,        \* number of messages the client is still to send
    stream_chunks,         \* number of chunks client.stream has yielded for the message
    full_response,         \* full_response, the chunks received so far
    model_requests,        \* the "messages" of the requests client.stream made, in order
    transcript,            \* session.state["transcript"]
    conversation_history,  \* session.state["conversation_history"]
    db_interviews,         \* Firestore: number of create_interview writes for the session
    judge_runs             \* number of calls of _run_judge_from_session_claude

ivClock == <<iv_now, iv_start_time, iv_duration_minutes>>
a2cVars == <<a2c_pc, a2c_steps>>
c2aVars == <<c2a_pc, c2a_msg, c2a_steps, client_pending, stream_chunks, full_response,
             model_requests>>
ivVars == <<ivClock, iv_duration, ws_state, ws_close_code, ws_sent, a2cVars, c2aVars,
            transcript, conversation_history, db_interviews, judge_runs>>

vars == <<wfVars, agVars, tgVars, jdVars, ddVars, cfVars, gcVars, ivVars>>

\* the variables of the other parts, which a part's actions leave unchanged
notWf == <<agVars, tgVars, jdVars, ddVars, cfVars, gcVars, ivVars>>
notAg == <<wfVars, tgVars, jdVars, ddVars, cfVars, gcVars, ivVars>>
notTg == <<wfVars, agVars, jdVars, ddVars, cfVars, gcVars, ivVars>>
notJd == <<wfVars, agVars, tgVars, ddVars, cfVars, gcVars, ivVars>>
notDd == <<wfVars, agVars, tgVars, jdVars, cfVars, gcVars, ivVars>>
notCf == <<wfVars, agVars, tgVars, jdVars, ddVars, gcVars, ivVars>>
notGc == <<wfVars, agVars, tgVars, jdVars, ddVars, cfVars, ivVars>>
notIv == <<wfVars, agVars, tgVars, jdVars, ddVars, cfVars, gcVars>>

-----------------------------------------------------------------------------
(* Value kinds *)

\* isinstance(v, dict)
IsDict(v) == v \in {"dict", "empty_dict", "error_dict", "success_dict"}

\* isinstance(v, list)
IsList(v) == v \in {"list", "empty_list"}

\* isinstance(v, dict) and "error" in v
HasError(v) == v = "error_dict"

\* bool(v)
Truthy(v) == v \notin {"empty_dict", "empty_list", "None", ""}

-----------------------------------------------------------------------------
(* Bounds and input domains *)

UserIds == {"u1", "u2"}

\* session_id arguments: None, the empty string, or a caller-chosen id
SessionIdArgs == {"None", "", "sess_A"}

\* string.ascii_letters + string.digits, line 34
Alphabet ==
    <<"a", "b", "c", "d", "e", "f", "g", "h", "i", "j", "k", "l", "m",
      "n", "o", "p", "q", "r", "s", "t", "u", "v", "w", "x", "y", "z",
      "A", "B", "C", "D", "E", "F", "G", "H", "I", "J", "K", "L", "M",
      "N", "O", "P", "Q", "R", "S", "T", "U", "V", "W", "X", "Y", "Z",
      "0", "1", "2", "3", "4", "5", "6", "7", "8", "9">>

\* range(20), line 35
IdLength == 20

\* what the calls of secrets.choice of one generate_session_id() pick: the
\* positions in the alphabet, in the order picked (two samples of the random
\* source)
SecretsChoices ==
    {[i \in 1..IdLength |-> ((7 * i) % Len(Alphabet)) + 1],
     [i \in 1..IdLength |-> ((11 * i + 3) % Len(Alphabet)) + 1]}

\* ''.join of the first n characters picked
RECURSIVE JoinChoices(_, _)
JoinChoices(choices, n) ==
    IF n = 0 THEN "" ELSE JoinChoices(choices, n - 1) \o Alphabet[choices[n]]

\* mutant: one character less is picked
GenerateSessionId_Short(choices) == JoinChoices(choices, IdLength - 1)

\* generate_session_id, lines 32-36
GenerateSessionId(choices) == JoinChoices(choices, IdLength)

\* results of generate_session_id()
GeneratedIds == {GenerateSessionId(choices) : choices \in SecretsChoices}

\* resume_text: a string, or None (slicing None raises TypeError)
ResumeArgs == {"str", "None"}

\* github_link / portfolio_link: empty or a URL
LinkArgs == {"", "url"}

AgentOrder == <<"summarizer", "search", "question_generator", "answer_generator">>

Agents == {AgentOrder[i] : i \in 1..Len(AgentOrder)}

\* what an agent call (through its factory) can produce for the workflow
SummarizerOutcomes == {"dict", "empty_dict", "error_dict", "list", "raise"}
SearchOutcomes     == {"dict", "error_dict", "list", "raise"}
ModelJsonKinds     == {"list", "empty_list", "dict", "error_dict"}

-----------------------------------------------------------------------------
(* Results of run_preparation_workflow *)

NoResult == [pending |-> TRUE]

IdleThread == [status |-> "idle", out |-> "none"]

\* the return of lines 173-184 (only the keys the claims read)
SuccessResult(uid, sid, wid) ==
    [success |-> TRUE, user_id |-> uid, session_id |-> sid, workflow_id |-> wid,
     completed_agents |-> AgentOrder]

\* the return of lines 189-195; err is str(e)
\* "session_id if session_id else None", "workflow_id if 'workflow_id' in locals() else None"
FailureResult(err, uid, sid, wid) ==
    [success |-> FALSE, error |-> err, user_id |-> uid,
     session_id |-> IF Truthy(sid) THEN sid ELSE "None",
     workflow_id |-> IF wid # "unbound" THEN wid ELSE "None"]

\* asyncio.to_thread(agent, ...): one entry of the call log
Call(agent, summary, faqs, questions, uid, wid) ==
    [agent |-> agent, summary |-> summary, faqs |-> faqs, questions |-> questions,
     user_id |-> uid, workflow_id |-> wid]

\* asyncio.to_thread(agent, ...) hands the call to a worker thread
Launch(ths, agent) == [ths EXCEPT ![agent] = [status |-> "running", out |-> "none"]]

-----------------------------------------------------------------------------
(* The agents as the workflow sees them (run in the worker thread) *)

\* _run_question_generator_claude: personal_summary.get(...) at line 53 is outside
\* every try, so a summary that is not a dict raises AttributeError
QuestionGeneratorOutcomes(summary) ==
    IF ~IsDict(summary) THEN {"raise"} ELSE ModelJsonKinds \cup {"raise"}

\* _run_answer_generator_claude: the kinds of value it can return, or "raise"
AnswerGeneratorOutcomes(questions, summary) ==
    IF ~IsDict(summary) THEN {"raise"}                            \* line 117
    ELSE IF questions = "list" THEN ModelJsonKinds \cup {"raise"} \* lines 129-130, 173-237
    ELSE IF questions = "dict" THEN ModelJsonKinds \cup {"raise"} \* lines 131-146: keys may be there
    ELSE {"error_dict", "raise"}                                  \* lines 142-146

\* mutant: a failed database write is not reported
AnswerGeneratorAndSave_IgnoreDbError(gen, db_ok) ==
    IF gen = "raise" THEN "raise"
    ELSE IF HasError(gen) THEN "error_dict"
    ELSE IF ~IsList(gen) THEN "error_dict"
    ELSE "success_dict"

\* _run_answer_generator_and_save + _save_answers_to_db:
\* gen is the generator's outcome, db_ok whether set_recommended_qas returns
AnswerGeneratorAndSave(gen, db_ok) ==
    IF gen = "raise" THEN "raise"
    ELSE IF HasError(gen) THEN "error_dict"                  \* lines 46-47
    ELSE IF ~IsList(gen) THEN "error_dict"                   \* lines 49-53
    ELSE IF db_ok THEN "success_dict"                        \* lines 83-90
    ELSE "error_dict"                                        \* lines 92-96

\* whether set_recommended_qas was called and returned (line 83)
AnswersWritten(gen, db_ok) == IsList(gen) /\ db_ok

-----------------------------------------------------------------------------
(* run_preparation_workflow, one action per stretch between two awaits *)

\* the agent call of Part 2 before it is made
AgIdle ==
    /\ ag_name = "none"
    /\ ag_in = [summary |-> "dict", job_description |-> "str", questions |-> "list",
                client_ok |-> TRUE]
    /\ ag_pc = "idle"
    /\ ag_calls = 0
    /\ ag_replies = <<>>
    /\ ag_out = [kind |-> "pending"]

\* the validation of Part 3 before it has inputs
TgIdle ==
    /\ tg_questions = <<>>
    /\ tg_reply = <<>>
    /\ tg_path = "primary"
    /\ tg_pc = "done"
    /\ tg_result = <<>>

\* the judge of Part 4 before it is called
JdIdle ==
    /\ jd_pc = "idle"
    /\ jd_parse = "none"
    /\ jd_feedback = [kind |-> "None", resources |-> <<>>]
    /\ jd_i = 1
    /\ jd_checks = <<>>
    /\ jd_events = <<>>
    /\ jd_pending = [kind |-> "pending", resources |-> <<>>]
    /\ jd_result = [kind |-> "pending", resources |-> <<>>]
    /\ jd_deletes = 0
    /\ jd_delete_raised = FALSE
    /\ db_feedback = [kind |-> "None", resources |-> <<>>]

\* deduplicate_resources of Part 5 with nothing to do
DdIdle ==
    /\ dd_in = [resources |-> <<>>]
    /\ dd_out = [resources |-> <<>>]
    /\ dd_again = [resources |-> <<>>]
    /\ dd_pc = "twice"

\* os.getenv: a variable that is not set
Unset == "<unset>"

\* the variables of backend/.env and of the environment that ClaudeConfig reads
PlainKeys == {"ANTHROPIC_API_KEY", "TAVILY_API_KEY"}
AgentFlags == {"SUMMARIZER_USE_CLAUDE", "QUESTION_GEN_USE_CLAUDE",
               "ANSWER_GEN_USE_CLAUDE", "SEARCH_USE_CLAUDE",
               "INTERVIEWER_USE_CLAUDE", "JUDGE_USE_CLAUDE"}
EnvKeys == PlainKeys \cup {"USE_CLAUDE"} \cup AgentFlags

\* an environment (or a .env file) that sets nothing
EmptyEnvironment == [k \in EnvKeys |-> Unset]

\* ClaudeConfig before the class body has run
CfgUnevaluated == [k \in EnvKeys |-> "unevaluated"]

\* no factory function has been called
NoFactoryCall == [function |-> "none", args |-> "none"]

\* the configuration of Part 6 of a process started with nothing set, and no
\* factory call
CfIdle ==
    /\ process_env = EmptyEnvironment
    /\ dotenv = EmptyEnvironment
    /\ environ = EmptyEnvironment
    /\ cfg_pc = "start"
    /\ cfg_loaded = FALSE
    /\ cfg = CfgUnevaluated
    /\ cfg_reads = <<>>
    /\ fc_pc = "idle"
    /\ fc_call = NoFactoryCall
    /\ fc_invoked = <<>>
    /\ fc_result = "none"

\* the threads that call get_claude_client: the worker threads of
\* asyncio.to_thread that run the agents, and the event loop thread
ClientThreads == {"worker_1", "worker_2", "event_loop"}

\* the module claude_client after import, before any call of get_claude_client
GcIdle ==
    /\ gc_api_key = TRUE
    /\ gc_client = 0
    /\ gc_constructed = 0
    /\ gc_pc = [t \in ClientThreads |-> "idle"]
    /\ gc_local = [t \in ClientThreads |-> 0]
    /\ gc_calls = 0
    /\ gc_returns = <<>>

\* no client message
NoMessage == [mime_type |-> "none", data |-> "none"]

\* the interview of Part 8 when no session is open
IvIdle ==
    /\ iv_now = 0
    /\ iv_start_time = 0
    /\ iv_duration_minutes = 0
    /\ iv_duration = -1
    /\ ws_state = "closed"
    /\ ws_close_code = 0
    /\ ws_sent = <<>>
    /\ a2c_pc = "done"
    /\ a2c_steps = <<>>
    /\ c2a_pc = "done"
    /\ c2a_msg = NoMessage
    /\ c2a_steps = <<>>
    /\ client_pending = 0
    /\ stream_chunks = 0
    /\ full_response = ""
    /\ model_requests = <<>>
    /\ transcript = <<>>
    /\ conversation_history = <<>>
    /\ db_interviews = 0
    /\ judge_runs = 0

\* run_preparation_workflow before it is called
WfIdle ==
    /\ wf_pc = "idle"
    /\ wf_args = [user_id |-> "none", session_id |-> "None", resume_text |-> "str",
                  github_link |-> "", portfolio_link |-> ""]
    /\ session_id = "None"
    /\ workflow_id = "unbound"
    /\ personal_summary = "unbound"
    /\ industry_faqs = "unbound"
    /\ questions_data = "unbound"
    /\ answers_result = "unbound"
    /\ threads = [a \in Agents |-> IdleThread]
    /\ invoked = <<>>
    /\ returned = <<>>
    /\ save_pe_calls = 0
    /\ db_qas = {}
    /\ db_pe = {}
    /\ wf_result = NoResult

\* mutant: the exception leaves run_preparation_workflow instead of being returned
WfFail_Propagate(err) ==
    /\ wf_result' = [raised |-> err]
    /\ wf_pc' = "done"
    /\ UNCHANGED <<threads, invoked, save_pe_calls, db_pe>>

\* the except clause, lines 186-195
WfFail(err) ==
    /\ wf_result' = FailureResult(err, wf_args.user_id, session_id, workflow_id)
    /\ wf_pc' = "done"
    /\ UNCHANGED <<threads, invoked, save_pe_calls, db_pe>>

\* lines 67-111: the call up to the first agent call (the summarizer). The GitHub
\* and portfolio analyses (lines 78-97) run inside their own try/except and only
\* yield the strings handed to the summarizer.
WfStart ==
    /\ wf_pc = "idle"
    /\ \E uid \in UserIds, sid \in SessionIdArgs, rt \in ResumeArgs,
          gh \in LinkArgs, pf \in LinkArgs, gen \in GeneratedIds :
        LET args == [user_id |-> uid, session_id |-> sid, resume_text |-> rt,
                     github_link |-> gh, portfolio_link |-> pf]
            new_sid == IF Truthy(sid) THEN sid ELSE gen            \* lines 69-71
        IN  /\ wf_args' = args
            /\ IF ~Truthy(sid) /\ rt = "None"
               THEN \* line 70: resume_text[:100] raises TypeError
                    /\ session_id' = sid
                    /\ workflow_id' = "unbound"
                    /\ wf_result' = FailureResult("exception", uid, sid, "unbound")
                    /\ wf_pc' = "done"
                    /\ UNCHANGED <<threads, invoked>>
               ELSE /\ session_id' = new_sid
                    /\ workflow_id' = new_sid                      \* line 73
                    /\ invoked' = Append(invoked,
                          Call("summarizer", "-", "-", "-", uid, new_sid))
                    /\ threads' = Launch(threads, "summarizer")
                    /\ wf_pc' = "summarizer"
                    /\ UNCHANGED wf_result
    /\ UNCHANGED <<personal_summary, industry_faqs, questions_data, answers_result,
                   returned, save_pe_calls, db_qas, db_pe>>

\* a worker thread runs its agent to the end
AgentRun ==
    \E a \in Agents, db_ok \in BOOLEAN :
        /\ threads[a].status = "running"
        /\ \E out \in CASE a = "summarizer" -> SummarizerOutcomes
                       [] a = "search" -> SearchOutcomes
                       [] a = "question_generator" ->
                              QuestionGeneratorOutcomes(personal_summary)
                       [] a = "answer_generator" ->
                              AnswerGeneratorOutcomes(questions_data, personal_summary) :
              IF a = "answer_generator"
              THEN /\ threads' = [threads EXCEPT ![a] =
                         [status |-> "finished", out |-> AnswerGeneratorAndSave(out, db_ok)]]
                   /\ db_qas' = IF AnswersWritten(out, db_ok)
                                THEN db_qas \cup {<<wf_args.user_id, workflow_id>>}
                                ELSE db_qas
              ELSE /\ db_ok
                   /\ threads' = [threads EXCEPT ![a] = [status |-> "finished", out |-> out]]
                   /\ UNCHANGED db_qas
        /\ UNCHANGED <<wf_pc, wf_args, session_id, workflow_id, personal_summary,
                       industry_faqs, questions_data, answers_result, invoked, returned,
                       save_pe_calls, db_pe, wf_result>>

\* mutant: a question generator error is only logged, as a search error is
StepError_QuestionErrorNotFatal(agent, out) ==
    IF out = "raise" THEN "exception"
    ELSE IF agent = "summarizer" /\ HasError(out) THEN "Summarizer error"
    ELSE IF agent = "answer_generator" /\ HasError(out) THEN "Answer generator error"
    ELSE "ok"

\* what the workflow makes of an agent's outcome: the message of the exception
\* it raises (lines 115-116, 147-148, 164-165), "exception" when the call itself
\* raised, "ok" to go on. A search error is not fatal (lines 129-131).
StepError(agent, out) ==
    IF out = "raise" THEN "exception"
    ELSE IF agent = "summarizer" /\ HasError(out) THEN "Summarizer error"
    ELSE IF agent = "question_generator" /\ HasError(out) THEN "Question generator error"
    ELSE IF agent = "answer_generator" /\ HasError(out) THEN "Answer generator error"
    ELSE "ok"

\* mutant: the search error dict is passed on as the industry FAQs
SearchResult_KeepError(out) == out

\* lines 129-131: industry_faqs after the search step
SearchResult(out) == IF HasError(out) THEN "empty_dict" ELSE out

\* _save_personal_experience_to_database, lines 198-227: whether the record is
\* written; pe_ok is whether the schema construction and Firestore calls return
PersonalExperienceWritten(summary, pe_ok) ==
    Truthy(summary) /\ IsDict(summary) /\ ~HasError(summary) /\ pe_ok

\* mutant: the call is not awaited
AgentFinished_NoAwait(agent) ==
    wf_pc = agent /\ threads[agent].status # "idle"

\* "await asyncio.to_thread(agent, ...)": the coroutine goes on only when the
\* worker thread has finished
AgentFinished(agent) ==
    wf_pc = agent /\ threads[agent].status = "finished"

\* lines 103-125: the summarizer returned; start the search
SummarizerReturn ==
    /\ AgentFinished("summarizer")
    /\ returned' = Append(returned, "summarizer")
    /\ personal_summary' = IF threads[wf_pc].out = "raise" THEN personal_summary ELSE threads[wf_pc].out
    /\ IF StepError("summarizer", threads[wf_pc].out) # "ok"
       THEN WfFail(StepError("summarizer", threads[wf_pc].out))
       ELSE /\ invoked' = Append(invoked,
                  Call("search", "-", "-", "-", wf_args.user_id, workflow_id))
            /\ threads' = Launch(threads, "search")
            /\ wf_pc' = "search"
            /\ UNCHANGED <<save_pe_calls, db_pe, wf_result>>
    /\ UNCHANGED <<wf_args, session_id, workflow_id, industry_faqs, questions_data,
                   answers_result, db_qas>>

\* lines 122-142: the search returned; start the question generator
SearchReturn ==
    /\ AgentFinished("search")
    /\ returned' = Append(returned, "search")
    /\ industry_faqs' = IF threads[wf_pc].out = "raise" THEN industry_faqs
                        ELSE SearchResult(threads[wf_pc].out)
    /\ IF StepError("search", threads[wf_pc].out) # "ok"
       THEN WfFail(StepError("search", threads[wf_pc].out))
       ELSE /\ invoked' = Append(invoked,
                  Call("question_generator", personal_summary, industry_faqs', "-",
                       wf_args.user_id, workflow_id))
            /\ threads' = Launch(threads, "question_generator")
            /\ wf_pc' = "question_generator"
            /\ UNCHANGED <<save_pe_calls, db_pe, wf_result>>
    /\ UNCHANGED <<wf_args, session_id, workflow_id, personal_summary, questions_data,
                   answers_result, db_qas>>

\* lines 137-160: the question generator returned; start the answer generator
QuestionGeneratorReturn ==
    /\ AgentFinished("question_generator")
    /\ returned' = Append(returned, "question_generator")
    /\ questions_data' = IF threads[wf_pc].out = "raise" THEN questions_data ELSE threads[wf_pc].out
    /\ IF StepError("question_generator", threads[wf_pc].out) # "ok"
       THEN WfFail(StepError("question_generator", threads[wf_pc].out))
       ELSE /\ invoked' = Append(invoked,
                  Call("answer_generator", personal_summary, "-", questions_data',
                       wf_args.user_id, workflow_id))
            /\ threads' = Launch(threads, "answer_generator")
            /\ wf_pc' = "answer_generator"
            /\ UNCHANGED <<save_pe_calls, db_pe, wf_result>>
    /\ UNCHANGED <<wf_args, session_id, workflow_id, personal_summary, industry_faqs,
                   answers_result, db_qas>>

\* lines 154-184: the answer generator returned; save the personal experience
\* (lines 168, 198-227) and return the result
AnswerGeneratorReturn ==
    /\ AgentFinished("answer_generator")
    /\ returned' = Append(returned, "answer_generator")
    /\ answers_result' = IF threads[wf_pc].out = "raise" THEN answers_result ELSE threads[wf_pc].out
    /\ IF StepError("answer_generator", threads[wf_pc].out) # "ok"
       THEN WfFail(StepError("answer_generator", threads[wf_pc].out))
       ELSE \E pe_ok \in BOOLEAN :
            /\ save_pe_calls' = save_pe_calls + 1
            /\ db_pe' = IF PersonalExperienceWritten(personal_summary, pe_ok)
                        THEN db_pe \cup {<<wf_args.user_id, workflow_id>>}
                        ELSE db_pe
            /\ wf_result' = SuccessResult(wf_args.user_id, session_id, workflow_id)
            /\ wf_pc' = "done"
            /\ UNCHANGED <<threads, invoked>>
    /\ UNCHANGED <<wf_args, session_id, workflow_id, personal_summary, industry_faqs,
                   questions_data, db_qas>>

NextWF ==
    \/ WfStart /\ UNCHANGED notWf
    \/ AgentRun /\ UNCHANGED notWf
    \/ SummarizerReturn /\ UNCHANGED notWf
    \/ SearchReturn /\ UNCHANGED notWf
    \/ QuestionGeneratorReturn /\ UNCHANGED notWf
    \/ AnswerGeneratorReturn /\ UNCHANGED notWf

InitWF == WfIdle /\ AgIdle /\ TgIdle /\ JdIdle /\ DdIdle /\ CfIdle /\ GcIdle /\ IvIdle

SpecWF == InitWF /\ [][NextWF]_vars

-----------------------------------------------------------------------------
(* Part 2: the Claude agent functions *)

ClaudeAgents == Agents

\* JSON values as the agents and their callers distinguish them
\* ("dict_questions": a dict with a "questions" key holding a list)
JsonKinds == {"dict", "empty_dict", "error_dict", "dict_questions", "list", "empty_list"}

\* personal_summary arguments: what the summarizer can have returned
SummaryArgs == {"dict", "empty_dict", "list"}

\* job_description arguments: a string, or None
JobDescriptionArgs == {"str", "None"}

\* questions_data arguments of the answer generator
QuestionsArgs == {"list", "empty_list", "dict_questions", "dict"}

\* A reply text of the model, by the first extraction strategy that yields valid
\* JSON and the kind of value it yields:
\*   "json"     the whole text is JSON
\*   "fenced"   the content of the first ``` block is JSON
\*   "braces"   the text from the first { to the last } is JSON (an object)
\*   "brackets" the text from the first [ to the last ] is JSON (an array)
\*   "none"     no strategy yields JSON
ReplyTexts ==
    [form : {"json", "fenced"}, value : JsonKinds]
    \cup [form : {"braces"}, value : {"dict", "error_dict", "dict_questions"}]
    \cup [form : {"brackets"}, value : {"list"}]
    \cup {[form |-> "none", value |-> "invalid"]}

\* ClaudeClient.generate: the reply text, or "api_error" (lines 63-76)
ModelOutcomes == ReplyTexts \cup {[form |-> "api_error", value |-> "invalid"]}

Raised(exc) == [kind |-> "raise", exc |-> exc]
Returned(v) == [kind |-> "return", value |-> v]

\* ClaudeClient._extract_json (lines 232-269): direct parse, then the ``` block,
\* then first { to last }; raises ValueError when none works
ExtractJson(text) ==
    IF text.form \in {"json", "fenced", "braces"}
    THEN Returned(text.value)
    ELSE Raised("ValueError")

\* _extract_json_fallback of the summarizer and the search agent: ``` block or
\* direct parse, then first { to last }, else an error dict
ExtractJsonFallbackObject(text) ==
    IF text.form \in {"json", "fenced", "braces"}
    THEN Returned(text.value)
    ELSE Returned("error_dict")

\* "if isinstance(result, dict) and 'questions' in result: result = result['questions']"
UnwrapQuestions(v) == IF v = "dict_questions" THEN "list" ELSE v

\* _extract_json_fallback of the question generator (lines 127-169): ``` block or
\* direct parse, then first [ to last ], then first { to last }, else an error
\* dict; a dict with "questions" is unwrapped
ExtractJsonFallbackQuestions(text) ==
    IF text.form \in {"json", "fenced", "braces", "brackets"}
    THEN Returned(UnwrapQuestions(text.value))
    ELSE Returned("error_dict")

\* _extract_json_fallback of the answer generator (lines 240-307)
ExtractJsonFallbackAnswers(text) ==
    IF text.form \in {"json", "fenced", "braces", "brackets"}
    THEN Returned(text.value)
    ELSE Returned("error_dict")

\* the code of an agent before its try block: "ok" to go on to the model call,
\* or how the call ends there
\*   search: _extract_job_title(job_description) calls job_description.strip()
\*   question generator, answer generator: personal_summary.get(...)
\*   answer generator: no question found returns an error dict (lines 142-146)
BeforeTry(name, in) ==
    IF name = "search" /\ in.job_description # "str" THEN Raised("AttributeError")
    ELSE IF name \in {"question_generator", "answer_generator"} /\ ~IsDict(in.summary)
         THEN Raised("AttributeError")
    ELSE IF name = "answer_generator" /\ in.questions \in {"empty_list", "dict"}
         THEN Returned("error_dict")
    ELSE [kind |-> "ok"]

\* the value an agent returns from its first try block, given the parsed JSON
FirstCallResult(name, v) ==
    IF name = "question_generator" THEN UnwrapQuestions(v) ELSE v

\* the value an agent returns from its fallback, given the reply text
FallbackResult(name, text) ==
    IF name \in {"summarizer", "search"} THEN ExtractJsonFallbackObject(text)
    ELSE IF name = "question_generator" THEN ExtractJsonFallbackQuestions(text)
    ELSE ExtractJsonFallbackAnswers(text)

\* the agent function is called: the code up to "await client.generate_json(...)"
AgentCall ==
    /\ ag_pc = "idle"
    /\ \E name \in ClaudeAgents, sm \in SummaryArgs, jd \in JobDescriptionArgs,
          qs \in QuestionsArgs, ok \in BOOLEAN :
        LET in == [summary |-> sm, job_description |-> jd, questions |-> qs,
                   client_ok |-> ok]
        IN  /\ ag_name' = name
            /\ ag_in' = in
            /\ IF BeforeTry(name, in).kind # "ok"
               THEN /\ ag_out' = BeforeTry(name, in)
                    /\ ag_pc' = "done"
                    /\ UNCHANGED ag_calls
               ELSE IF ~ok
               THEN \* get_claude_client() raises ValueError in both try blocks
                    /\ ag_out' = Returned("error_dict")
                    /\ ag_pc' = "done"
                    /\ UNCHANGED ag_calls
               ELSE /\ ag_pc' = "json_call"
                    /\ ag_calls' = ag_calls + 1
                    /\ UNCHANGED ag_out
    /\ UNCHANGED ag_replies

\* generate_json returned or raised: return the value, or go to the fallback call
JsonCallReturn ==
    /\ ag_pc = "json_call"
    /\ \E reply \in ModelOutcomes :
        /\ ag_replies' = Append(ag_replies, reply)
        /\ IF reply.form # "api_error" /\ ExtractJson(reply).kind = "return"
           THEN /\ ag_out' = Returned(FirstCallResult(ag_name, ExtractJson(reply).value))
                /\ ag_pc' = "done"
                /\ UNCHANGED ag_calls
           ELSE /\ ag_pc' = "text_call"
                /\ ag_calls' = ag_calls + 1
                /\ UNCHANGED ag_out
    /\ UNCHANGED <<ag_name, ag_in>>

\* mutant: when the fallback call raises, the agent calls the model again
TextCallReturn_CallsAgain ==
    /\ ag_pc = "text_call"
    /\ \E reply \in ModelOutcomes :
        /\ ag_replies' = Append(ag_replies, reply)
        /\ IF reply.form = "api_error"
           THEN /\ ag_calls' = ag_calls + 1
                /\ ag_pc' = IF ag_calls < 3 THEN "text_call" ELSE "done"
                /\ ag_out' = Returned("error_dict")
           ELSE /\ ag_out' = FallbackResult(ag_name, reply)
                /\ ag_pc' = "done"
                /\ UNCHANGED ag_calls
    /\ UNCHANGED <<ag_name, ag_in>>

\* the fallback generate returned or raised
TextCallReturn ==
    /\ ag_pc = "text_call"
    /\ \E reply \in ModelOutcomes :
        /\ ag_replies' = Append(ag_replies, reply)
        /\ ag_out' = IF reply.form = "api_error"
                     THEN Returned("error_dict")
                     ELSE FallbackResult(ag_name, reply)
    /\ ag_pc' = "done"
    /\ UNCHANGED <<ag_name, ag_in, ag_calls>>

NextAG ==
    \/ AgentCall /\ UNCHANGED notAg
    \/ JsonCallReturn /\ UNCHANGED notAg
    \/ TextCallReturn /\ UNCHANGED notAg

InitAG == WfIdle /\ AgIdle /\ TgIdle /\ JdIdle /\ DdIdle /\ CfIdle /\ GcIdle /\ IvIdle

SpecAG == InitAG /\ [][NextAG]_vars

-----------------------------------------------------------------------------
(* Part 3: tag preservation in _run_answer_generator_claude *)

MaxQuestions == 2
MaxAnswers == 3

\* the "tags" value of a question: a list of strings, a string, any other value
\* (a number, None), or no "tags" key; v holds the list, or the one string
QuestionTags ==
    {[kind |-> "list", v |-> <<"technical">>],
     [kind |-> "list", v |-> <<>>],
     [kind |-> "str", v |-> <<"behavioral">>],
     [kind |-> "other", v |-> <<>>],
     [kind |-> "missing", v |-> <<>>]}

QuestionTexts == {"Q1", "Q2"}

\* an element of questions_list: a dict with a "question" key, a dict without
\* one, or a plain string
QuestionItems ==
    [type : {"dict"}, has_question : {TRUE}, question : QuestionTexts, tags : QuestionTags]
    \cup [type : {"dict"}, has_question : {FALSE}, question : {""},
          tags : {[kind |-> "list", v |-> <<"technical">>]}]
    \cup [type : {"str"}, has_question : {FALSE}, question : QuestionTexts,
          tags : {[kind |-> "missing", v |-> <<>>]}]

\* an element of the model's answer array: a dict (with or without a "question"
\* key, with the tags the model chose) or something that is no dict
AnswerItems ==
    [type : {"dict"}, has_question : {TRUE}, question : QuestionTexts,
     answer : {"A"}, tags : {<<"from_model">>}]
    \cup {[type |-> "dict", has_question |-> FALSE, question |-> "",
           answer |-> "A", tags |-> <<"from_model">>],
          [type |-> "str", has_question |-> FALSE, question |-> "",
           answer |-> "", tags |-> <<>>]}

SeqsUpTo(S, n) == UNION {[1..k -> S] : k \in 0..n}

\* lines 148-154: the question texts sent to the model
RECURSIVE QuestionsOnly(_)
QuestionsOnly(ql) ==
    IF ql = <<>> THEN <<>>
    ELSE LET q == Head(ql)
         IN  IF (q.type = "dict" /\ q.has_question) \/ q.type = "str"
             THEN <<q.question>> \o QuestionsOnly(Tail(ql))
             ELSE QuestionsOnly(Tail(ql))

\* lines 198-202: "Ensure tags is a list"
NormalizeTags(t) ==
    IF t.kind = "list" THEN t.v
    ELSE IF t.kind = "str" THEN <<t.v[1]>>
    ELSE <<>>

\* lines 192-202: the original tags for the i-th element of the answer array
OriginalTags(ql, i) ==
    IF i <= Len(ql)
    THEN IF ql[i].type = "dict"
         THEN IF ql[i].tags.kind = "missing" THEN <<>>      \* .get("tags", [])
              ELSE NormalizeTags(ql[i].tags)
         ELSE <<>>
    ELSE <<>>

\* lines 188-213: for i, item in enumerate(result): the validated items, one per
\* dict element; from is the position of the element it was built from
RECURSIVE ValidateFrom(_, _, _)
ValidateFrom(result, ql, i) ==
    IF i > Len(result) THEN <<>>
    ELSE IF result[i].type = "dict"
         THEN <<[question |-> IF result[i].has_question THEN result[i].question ELSE "",
                 answer |-> result[i].answer,
                 tags |-> OriginalTags(ql, i),
                 from |-> i]>> \o ValidateFrom(result, ql, i + 1)
         ELSE ValidateFrom(result, ql, i + 1)

\* the primary path, lines 185-213
ValidateAnswers(result, ql) == ValidateFrom(result, ql, 1)

\* the fallback path, _extract_json_fallback lines 277-305: the same loop
ValidateAnswersFallback(result, ql) == ValidateFrom(result, ql, 1)

InitTG ==
    /\ WfIdle /\ AgIdle /\ JdIdle /\ DdIdle /\ CfIdle /\ GcIdle /\ IvIdle
    /\ tg_questions \in SeqsUpTo(QuestionItems, MaxQuestions) \ {<<>>}   \* line 142
    /\ tg_reply \in SeqsUpTo(AnswerItems, MaxAnswers)
    /\ tg_path \in {"primary", "fallback"}
    /\ tg_pc = "input"
    /\ tg_result = <<>>

\* the model's answer array is validated and returned
TagsValidate ==
    /\ tg_pc = "input"
    /\ tg_result' = IF tg_path = "primary"
                    THEN ValidateAnswers(tg_reply, tg_questions)
                    ELSE ValidateAnswersFallback(tg_reply, tg_questions)
    /\ tg_pc' = "done"
    /\ UNCHANGED <<tg_questions, tg_reply, tg_path>>

NextTG ==
    \/ TagsValidate /\ UNCHANGED notTg

SpecTG == InitTG /\ [][NextTG]_vars

-----------------------------------------------------------------------------
(* Part 4: _run_judge_from_session_claude (agents/interview_judge/agent_claude.py) *)

MaxResources == 2

\* the backup resource search_ddgs falls back to (lines 263-266)
FallbackTitle == "5 Tips To Ace a Behavioral-Based Interview"
FallbackLink ==
    "https://jobs.gartner.com/life-at-gartner/your-career/5-tips-to-ace-a-behavioral-based-interview/"

\* "link" values of the resources in the model's feedback ("": empty or missing)
JudgeLinks == {"", "http://a.example", "http://b.example"}

\* "href" values of a DuckDuckGo result
DdgsHrefs == {"", "ftp://c.example", "http://a.example", "http://b.example"}

\* str.startswith("http") on the strings of the model
StartsWithHttp(l) == l \in {"http://a.example", "http://b.example", FallbackLink}

\* what requests.get(url, timeout=5) finds: an exception, or a page with its
\* status code, whether its text holds "404"/"page not found"/"not available",
\* and the length of its text
Pages ==
    {[raised |-> TRUE, status |-> 0, not_found_text |-> FALSE, length |-> 0],
     [raised |-> FALSE, status |-> 404, not_found_text |-> FALSE, length |-> 500],
     [raised |-> FALSE, status |-> 200, not_found_text |-> TRUE, length |-> 500],
     [raised |-> FALSE, status |-> 200, not_found_text |-> FALSE, length |-> 499],
     [raised |-> FALSE, status |-> 200, not_found_text |-> FALSE, length |-> 500]}

\* is_valid_and_reachable_url, lines 211-224 (requests.get raises on a url
\* without an http scheme)
IsValidAndReachableUrl(url, page) ==
    IF ~StartsWithHttp(url) \/ page.raised THEN FALSE
    ELSE IF page.status >= 400 THEN FALSE
    ELSE IF page.not_found_text THEN FALSE
    ELSE IF page.length < 500 THEN FALSE
    ELSE TRUE

\* what DDGS().text(topic, max_results=1) does: raises, yields nothing, or
\* yields one result (title "": the result has no title)
DdgsOutcomes ==
    {[kind |-> "exception", href |-> "", title |-> ""],
     [kind |-> "empty", href |-> "", title |-> ""]}
    \cup [kind : {"result"}, href : DdgsHrefs, title : {"", "found"}]

\* mutant: the href of the result is not checked
SearchDdgs_AnyHref(o) ==
    IF o.kind = "result"
    THEN [title |-> IF o.title = "" THEN "Related resource" ELSE o.title, link |-> o.href]
    ELSE [title |-> FallbackTitle, link |-> FallbackLink]

\* search_ddgs, lines 242-266
SearchDdgs(o) ==
    IF o.kind = "result" /\ StartsWithHttp(o.href)
    THEN [title |-> IF o.title = "" THEN "Related resource" ELSE o.title, link |-> o.href]
    ELSE [title |-> FallbackTitle, link |-> FallbackLink]

\* the record kept when search_ddgs was not called for a resource
NotSearched == [title |-> "", link |-> ""]

\* deduplicate_resources, lines 227-239: the loop over the resources
RECURSIVE UniqueResources(_, _)
UniqueResources(resources, seen_links) ==
    IF resources = <<>> THEN <<>>
    ELSE LET r == Head(resources)
         IN  IF Truthy(r.link) /\ r.link \notin seen_links
             THEN <<r>> \o UniqueResources(Tail(resources), seen_links \cup {r.link})
             ELSE UniqueResources(Tail(resources), seen_links)

\* mutant: duplicates are not removed
DeduplicateResources_Keep(feedback) == feedback

\* deduplicate_resources: feedback_json.get("resources", []) is filtered and
\* stored under "resources" (line 238), the other keys are not touched
DeduplicateResources(feedback) ==
    LET resources == IF "resources" \in DOMAIN feedback THEN feedback.resources
                     ELSE <<>>
    IN  [k \in DOMAIN feedback \cup {"resources"} |->
            IF k = "resources" THEN UniqueResources(resources, {}) ELSE feedback[k]]

\* the resources array of a feedback whose links are ls; id is the position in
\* the model's reply
ResourcesOf(ls) == [i \in 1..Len(ls) |-> [title |-> "orig", link |-> ls[i], id |-> i]]

\* the model's reply: an API error, or a text by the way JSON can be taken from
\* it (see ReplyTexts), whether the JSON passes Feedback.model_validate, and
\* the links of its resources
JudgeReplies ==
    {[form |-> "api_error", schema_ok |-> FALSE, links |-> <<>>]}
    \cup [form : {"none"}, schema_ok : {FALSE}, links : {<<>>}]
    \cup [form : {"json", "fenced", "braces"}, schema_ok : {FALSE}, links : {<<>>}]
    \cup [form : {"json", "fenced", "braces"}, schema_ok : {TRUE},
          links : SeqsUpTo(JudgeLinks, MaxResources)]

\* parse_and_validate_feedback, lines 167-192
ParseAndValidateFeedback(reply) ==
    IF reply.form \notin {"json", "fenced", "braces"}
    THEN [status |-> "error", data |-> <<>>]                 \* json.loads raises
    ELSE IF ~reply.schema_ok
    THEN [status |-> "invalid", data |-> <<>>]               \* ValidationError
    ELSE [status |-> "valid", data |-> ResourcesOf(reply.links)]

JudgeNone == [kind |-> "None", resources |-> <<>>]
JudgeError == [kind |-> "error_dict", resources |-> <<>>]
JudgeFeedback(resources) == [kind |-> "feedback", resources |-> resources]

\* lines 94-116: the call up to "await client.generate(...)"
JudgeStart ==
    /\ jd_pc = "idle"
    /\ jd_pc' = "generating"
    /\ UNCHANGED <<jd_parse, jd_feedback, jd_i, jd_checks, jd_events, jd_pending,
                   jd_result, jd_deletes, jd_delete_raised, db_feedback>>

\* lines 110-125 and 143-153: the model call returned or raised; the reply is parsed
JudgeGenerateReturn ==
    /\ jd_pc = "generating"
    /\ \E reply \in JudgeReplies :
        IF reply.form = "api_error"
        THEN /\ jd_pending' = JudgeError                     \* lines 149-153
             /\ jd_pc' = "cleanup"
             /\ UNCHANGED <<jd_parse, jd_feedback>>
        ELSE LET result == ParseAndValidateFeedback(reply)
             IN  /\ jd_parse' = result.status
                 /\ IF result.status = "valid"
                    THEN /\ jd_feedback' = JudgeFeedback(result.data)
                         /\ jd_pc' = "validating"
                         /\ UNCHANGED jd_pending
                    ELSE /\ jd_pending' = jd_feedback        \* line 147: still None
                         /\ jd_pc' = "cleanup"
                         /\ UNCHANGED jd_feedback
    /\ UNCHANGED <<jd_i, jd_checks, jd_events, jd_result, jd_deletes, jd_delete_raised,
                   db_feedback>>

\* lines 128-134: one iteration of "for resource in feedback_json.get('resources', [])"
JudgeCheckLink ==
    /\ jd_pc = "validating"
    /\ jd_i <= Len(jd_feedback.resources)
    /\ \E page \in Pages, found \in DdgsOutcomes :
        LET resource == jd_feedback.resources[jd_i]
            ok == IsValidAndReachableUrl(resource.link, page)
            new_resource == SearchDdgs(found)
        IN  /\ ok => found.kind = "empty"     \* search_ddgs is not called
            /\ jd_feedback' =
                  IF ok THEN jd_feedback
                  ELSE [jd_feedback EXCEPT !.resources[jd_i].title = new_resource.title,
                                           !.resources[jd_i].link = new_resource.link]
            /\ jd_checks' = Append(jd_checks,
                  [original |-> resource.link, failed |-> ~ok,
                   ddgs |-> IF ok THEN NotSearched ELSE new_resource])
    /\ jd_i' = jd_i + 1
    /\ jd_events' = Append(jd_events, "check_link")
    /\ UNCHANGED <<jd_pc, jd_parse, jd_pending, jd_result, jd_deletes, jd_delete_raised,
                   db_feedback>>

\* lines 136-147: after the loop, deduplicate and save; saved is whether
\* save_feedback_to_db returns (Feedback(**validated) and set_feedback may raise)
JudgeDedupAndSave ==
    /\ jd_pc = "validating"
    /\ jd_i > Len(jd_feedback.resources)
    /\ jd_feedback' = DeduplicateResources(jd_feedback)
    /\ \E saved \in BOOLEAN :
        IF saved
        THEN /\ db_feedback' = jd_feedback'
             /\ jd_events' = jd_events \o <<"deduplicate", "save">>
             /\ jd_pending' = jd_feedback'
        ELSE /\ jd_events' = jd_events \o <<"deduplicate", "save_raised">>
             /\ jd_pending' = JudgeError
             /\ UNCHANGED db_feedback
    /\ jd_pc' = "cleanup"
    /\ UNCHANGED <<jd_parse, jd_i, jd_checks, jd_result, jd_deletes, jd_delete_raised>>

\* mutant: a failed deletion replaces the value returned
JudgeCleanup_DeleteErrorReturned ==
    /\ jd_pc = "cleanup"
    /\ jd_deletes' = jd_deletes + 1
    /\ \E raised \in BOOLEAN :
        /\ jd_delete_raised' = raised
        /\ jd_result' = IF raised THEN JudgeError ELSE jd_pending
    /\ jd_pc' = "done"
    /\ UNCHANGED <<jd_parse, jd_feedback, jd_i, jd_checks, jd_events, jd_pending,
                   db_feedback>>

\* lines 155-164: the finally clause awaits delete_session, which returns or
\* raises (the exception is caught and printed), then the value of the return
\* statement that was reached is returned
JudgeCleanup ==
    /\ jd_pc = "cleanup"
    /\ jd_deletes' = jd_deletes + 1
    /\ \E raised \in BOOLEAN : jd_delete_raised' = raised
    /\ jd_result' = jd_pending
    /\ jd_pc' = "done"
    /\ UNCHANGED <<jd_parse, jd_feedback, jd_i, jd_checks, jd_events, jd_pending,
                   db_feedback>>

NextJD ==
    \/ JudgeStart /\ UNCHANGED notJd
    \/ JudgeGenerateReturn /\ UNCHANGED notJd
    \/ JudgeCheckLink /\ UNCHANGED notJd
    \/ JudgeDedupAndSave /\ UNCHANGED notJd
    \/ JudgeCleanup /\ UNCHANGED notJd

InitJD == WfIdle /\ AgIdle /\ TgIdle /\ JdIdle /\ DdIdle /\ CfIdle /\ GcIdle /\ IvIdle

SpecJD == InitJD /\ [][NextJD]_vars

-----------------------------------------------------------------------------
(* Part 5: deduplicate_resources as a function of the feedback dict *)

MaxDedup == 3

\* resource.get("link") of the resources of the input: "None" when the key is
\* missing, "" when it is empty
DedupLinks == JudgeLinks \cup {"None"}

\* the feedback dicts passed in: other keys beside "resources", and a dict
\* without the "resources" key
DedupInputs ==
    [summary : {"good", "poor"}, score : {7}]
    \cup [summary : {"good", "poor"}, score : {7},
          resources : {ResourcesOf(ls) : ls \in SeqsUpTo(DedupLinks, MaxDedup)}]

\* deduplicate_resources(feedback_json): first application
DedupApply ==
    /\ dd_pc = "input"
    /\ dd_out' = DeduplicateResources(dd_in)
    /\ dd_pc' = "once"
    /\ UNCHANGED <<dd_in, dd_again>>

\* deduplicate_resources applied to its own result
DedupApplyAgain ==
    /\ dd_pc = "once"
    /\ dd_again' = DeduplicateResources(dd_out)
    /\ dd_pc' = "twice"
    /\ UNCHANGED <<dd_in, dd_out>>

NextDD ==
    \/ DedupApply /\ UNCHANGED notDd
    \/ DedupApplyAgain /\ UNCHANGED notDd

InitDD ==
    /\ WfIdle /\ AgIdle /\ TgIdle /\ JdIdle /\ CfIdle /\ GcIdle /\ IvIdle
    /\ dd_in \in DedupInputs
    /\ dd_out = [resources |-> <<>>]
    /\ dd_again = [resources |-> <<>>]
    /\ dd_pc = "input"

SpecDD == InitDD /\ [][NextDD]_vars

-----------------------------------------------------------------------------
(* Part 6: backend/config.py *)

MaxFlagsSet == 2

\* values given to the feature-flag variables
FlagTexts == {"true", "True", "TRUE", "false", "1", ""}

\* str.lower() on the strings of the model
Lower(s) ==
    CASE s \in {"true", "True", "TRUE"} -> "true"
      [] s \in {"false", "False", "FALSE"} -> "false"
      [] OTHER -> s

\* mutant: the default of an agent flag is rendered as a digit
Str_Digit(b) == IF b THEN "1" ELSE "0"

\* str(b) of a bool
Str(b) == IF b THEN "True" ELSE "False"

\* os.getenv(key, default)
Getenv(env, key, default) == IF env[key] = Unset THEN default ELSE env[key]

\* line 39: USE_CLAUDE
UseClaude(env) == Lower(Getenv(env, "USE_CLAUDE", "false")) = "true"

\* lines 42-47: an agent-specific override
AgentFlag(env, key) == Lower(Getenv(env, key, Str(UseClaude(env)))) = "true"

\* the class body of ClaudeConfig, lines 19-51, run on the environment env
ClaudeConfig(env) ==
    [k \in EnvKeys |->
        IF k \in PlainKeys THEN Getenv(env, k, "")
        ELSE IF k = "USE_CLAUDE" THEN UseClaude(env)
        ELSE AgentFlag(env, k)]

\* environments that set USE_CLAUDE or not, and at most n agent flags, to texts
FlagEnvironments(texts, n) ==
    UNION {{[k \in EnvKeys |-> IF k = "USE_CLAUDE" THEN u
                                ELSE IF k \in S THEN f[k] ELSE Unset] :
                u \in texts \cup {Unset}, f \in [S -> texts]} :
            S \in {T \in SUBSET AgentFlags : Cardinality(T) <= n}}

\* "import backend.config": the class body of ClaudeConfig is evaluated, once,
\* on os.environ as it is at that moment
ImportConfig ==
    /\ cfg_pc = "start"
    /\ cfg' = ClaudeConfig(environ)
    /\ cfg_pc' = "imported"
    /\ UNCHANGED <<process_env, dotenv, environ, cfg_loaded, cfg_reads,
                   fc_pc, fc_call, fc_invoked, fc_result>>

NextCF ==
    \/ ImportConfig /\ UNCHANGED notCf

InitCF ==
    /\ WfIdle /\ AgIdle /\ TgIdle /\ JdIdle /\ DdIdle /\ GcIdle /\ IvIdle
    /\ process_env \in FlagEnvironments(FlagTexts, MaxFlagsSet)
    /\ dotenv = EmptyEnvironment
    /\ environ = process_env
    /\ cfg_pc = "start"
    /\ cfg_loaded = FALSE
    /\ cfg = CfgUnevaluated
    /\ cfg_reads = <<>>
    /\ fc_pc = "idle"
    /\ fc_call = NoFactoryCall
    /\ fc_invoked = <<>>
    /\ fc_result = "none"

SpecCF == InitCF /\ [][NextCF]_vars

-----------------------------------------------------------------------------
(* Part 6, continued: the agent_factory modules and workflow_factory.py *)

\* the factory functions that select a provider and pass the call on
FactoryFunctions ==
    {"summarize_resume", "search_interview_questions", "generate_custom_questions",
     "generate_and_save_personalized_answers", "generate_personalized_answers",
     "run_judge_from_session", "run_preparation_workflow",
     "run_preparation_workflow_sync"}

\* mutant: every factory follows the global flag
FlagOf_Global(function) == "USE_CLAUDE"

\* the attribute of ClaudeConfig tested by the factory function
FlagOf(function) ==
    CASE function = "summarize_resume" -> "SUMMARIZER_USE_CLAUDE"
      [] function = "search_interview_questions" -> "SEARCH_USE_CLAUDE"
      [] function = "generate_custom_questions" -> "QUESTION_GEN_USE_CLAUDE"
      [] function \in {"generate_and_save_personalized_answers",
                       "generate_personalized_answers"} -> "ANSWER_GEN_USE_CLAUDE"
      [] function = "run_judge_from_session" -> "JUDGE_USE_CLAUDE"
      [] function \in {"run_preparation_workflow",
                       "run_preparation_workflow_sync"} -> "USE_CLAUDE"

\* the argument lists a factory function is called with
FactoryArgs == {"args_1", "args_2"}

\* how the implementation ends: it returns a value or raises
ImplOutcomes == {"dict", "error_dict", "None", "raise"}

\* a factory function is called: it tests its flag, imports the implementation
\* of the same name from agent_claude (Claude) or agent (Gemini) and calls it
\* with the arguments it got
FactoryCall ==
    /\ cfg_pc = "imported"
    /\ fc_pc = "idle"
    /\ \E function \in FactoryFunctions, args \in FactoryArgs :
        /\ fc_call' = [function |-> function, args |-> args]
        /\ fc_invoked' = Append(fc_invoked,
              [impl |-> IF cfg[FlagOf(function)] THEN "claude" ELSE "gemini",
               function |-> function, args |-> args, out |-> "running"])
    /\ fc_pc' = "in_impl"
    /\ UNCHANGED <<process_env, dotenv, environ, cfg_pc, cfg_loaded, cfg, cfg_reads,
                   fc_result>>

\* the implementation ends and the factory function returns what it returned
FactoryReturn ==
    /\ fc_pc = "in_impl"
    /\ \E out \in ImplOutcomes :
        /\ fc_invoked' = [fc_invoked EXCEPT ![Len(fc_invoked)].out = out]
        /\ fc_result' = out
    /\ fc_pc' = "done"
    /\ UNCHANGED <<process_env, dotenv, environ, cfg_pc, cfg_loaded, cfg, cfg_reads,
                   fc_call>>

NextFC ==
    \/ FactoryCall /\ UNCHANGED notCf
    \/ FactoryReturn /\ UNCHANGED notCf

\* the factory modules import ClaudeConfig when they are loaded
InitFC ==
    /\ WfIdle /\ AgIdle /\ TgIdle /\ JdIdle /\ DdIdle /\ GcIdle /\ IvIdle
    /\ process_env \in FlagEnvironments({"true", "false"}, 1)
    /\ dotenv = EmptyEnvironment
    /\ environ = process_env
    /\ cfg_pc = "imported"
    /\ cfg_loaded = FALSE
    /\ cfg = ClaudeConfig(process_env)
    /\ cfg_reads = <<>>
    /\ fc_pc = "idle"
    /\ fc_call = NoFactoryCall
    /\ fc_invoked = <<>>
    /\ fc_result = "none"

SpecFC == InitFC /\ [][NextFC]_vars

-----------------------------------------------------------------------------
(* Part 7: get_claude_client, called from several threads *)

MaxClientCalls == 3

\* line 284: "if _claude_client is None" reads the global
GetClientEnter(t) ==
    /\ gc_pc[t] = "idle"
    /\ gc_calls < MaxClientCalls
    /\ gc_calls' = gc_calls + 1
    /\ gc_pc' = [gc_pc EXCEPT ![t] = IF gc_client = 0 THEN "constructing"
                                     ELSE "returning"]
    /\ UNCHANGED <<gc_api_key, gc_client, gc_constructed, gc_local, gc_returns>>

\* line 285, right-hand side: ClaudeClient() runs __init__ (lines 30-38), which
\* raises ValueError without an API key
ClientInit(t) ==
    /\ gc_pc[t] = "constructing"
    /\ IF gc_api_key
       THEN /\ gc_constructed' = gc_constructed + 1
            /\ gc_local' = [gc_local EXCEPT ![t] = gc_constructed + 1]
            /\ gc_pc' = [gc_pc EXCEPT ![t] = "storing"]
            /\ UNCHANGED gc_returns
       ELSE /\ gc_returns' = Append(gc_returns,
                                      [thread |-> t, raised |-> TRUE, client |-> 0])
            /\ gc_pc' = [gc_pc EXCEPT ![t] = "idle"]
            /\ UNCHANGED <<gc_constructed, gc_local>>
    /\ UNCHANGED <<gc_api_key, gc_client, gc_calls>>

\* line 285: the new object is stored in the global
ClientStore(t) ==
    /\ gc_pc[t] = "storing"
    /\ gc_client' = gc_local[t]
    /\ gc_pc' = [gc_pc EXCEPT ![t] = "returning"]
    /\ UNCHANGED <<gc_api_key, gc_constructed, gc_local, gc_calls, gc_returns>>

\* line 286: "return _claude_client" reads the global again
ClientReturn(t) ==
    /\ gc_pc[t] = "returning"
    /\ gc_returns' = Append(gc_returns,
                             [thread |-> t, raised |-> FALSE, client |-> gc_client])
    /\ gc_pc' = [gc_pc EXCEPT ![t] = "idle"]
    /\ UNCHANGED <<gc_api_key, gc_client, gc_constructed, gc_local, gc_calls>>

NextGC ==
    \/ \E t \in ClientThreads : GetClientEnter(t) /\ UNCHANGED notGc
    \/ \E t \in ClientThreads : ClientInit(t) /\ UNCHANGED notGc
    \/ \E t \in ClientThreads : ClientStore(t) /\ UNCHANGED notGc
    \/ \E t \in ClientThreads : ClientReturn(t) /\ UNCHANGED notGc

InitGC ==
    /\ WfIdle /\ AgIdle /\ TgIdle /\ JdIdle /\ DdIdle /\ CfIdle /\ IvIdle
    /\ gc_api_key \in BOOLEAN
    /\ gc_client = 0
    /\ gc_constructed = 0
    /\ gc_pc = [t \in ClientThreads |-> "idle"]
    /\ gc_local = [t \in ClientThreads |-> 0]
    /\ gc_calls = 0
    /\ gc_returns = <<>>

SpecGC == InitGC /\ [][NextGC]_vars

-----------------------------------------------------------------------------
(* Part 6, continued: loading backend/.env *)

MaxReads == 2

\* the settings of the claim, which a deployment writes in backend/.env
DotenvKeys == {"ANTHROPIC_API_KEY", "USE_CLAUDE", "TAVILY_API_KEY"}

\* environments, or .env files, that set some of these three, to the given texts
PlainEnvironments(api_key, use_claude, tavily_key) ==
    {[k \in EnvKeys |->
        IF k = "ANTHROPIC_API_KEY" THEN a
        ELSE IF k = "USE_CLAUDE" THEN u
        ELSE IF k = "TAVILY_API_KEY" THEN t
        ELSE Unset] :
     a \in {Unset, api_key}, u \in {Unset} \cup use_claude, t \in {Unset, tavily_key}}

\* load_dotenv(env_file_path), line 16: every variable of the file that is not
\* yet in os.environ is added to it (override is off by default)
LoadDotenv(env, file) == [k \in EnvKeys |-> IF env[k] = Unset THEN file[k] ELSE env[k]]

\* set_google_cloud_env_vars(), lines 10-16. It is a function of backend.config:
\* every caller imports that module first (test_claude.py lines 13 and 16,
\* app.py lines 4 and 7, the agent modules), which runs the class body of
\* ClaudeConfig before the call
SetGoogleCloudEnvVars ==
    /\ cfg_pc = "imported"
    /\ environ' = LoadDotenv(environ, dotenv)
    /\ cfg_loaded' = TRUE
    /\ UNCHANGED <<process_env, dotenv, cfg_pc, cfg, cfg_reads,
                   fc_pc, fc_call, fc_invoked, fc_result>>

\* an agent, a factory or ClaudeClient.__init__ reads an attribute of
\* ClaudeConfig (claude_client.py line 30, workflow_factory.py line 13,
\* test_claude.py lines 131-135)
ReadSetting ==
    /\ cfg_pc = "imported"
    /\ Len(cfg_reads) < MaxReads
    /\ \E k \in DotenvKeys :
        cfg_reads' = Append(cfg_reads, [key |-> k, value |-> cfg[k],
                                        loaded |-> cfg_loaded])
    /\ UNCHANGED <<process_env, dotenv, environ, cfg_pc, cfg_loaded, cfg,
                   fc_pc, fc_call, fc_invoked, fc_result>>

NextENV ==
    \/ ImportConfig /\ UNCHANGED notCf
    \/ SetGoogleCloudEnvVars /\ UNCHANGED notCf
    \/ ReadSetting /\ UNCHANGED notCf

InitENV ==
    /\ WfIdle /\ AgIdle /\ TgIdle /\ JdIdle /\ DdIdle /\ GcIdle /\ IvIdle
    /\ process_env \in PlainEnvironments("sk-ant-shell", {"true", "false"}, "tvly-shell")
    /\ dotenv \in PlainEnvironments("sk-ant-file", {"true", "false"}, "tvly-file")
    /\ environ = process_env
    /\ cfg_pc = "start"
    /\ cfg_loaded = FALSE
    /\ cfg = CfgUnevaluated
    /\ cfg_reads = <<>>
    /\ fc_pc = "idle"
    /\ fc_call = NoFactoryCall
    /\ fc_invoked = <<>>
    /\ fc_result = "none"

SpecENV == InitENV /\ [][NextENV]_vars

-----------------------------------------------------------------------------
(* Part 8: agent_to_client_messaging and client_to_agent_messaging *)

MaxMinutes == 2
MaxMessages == 2

\* the "data" of the end_interview control message
EndInterview == "{\"type\": \"control\", \"action\": \"end_interview\"}"

\* the messages a client sends: "data" is the control message or a text that
\* is not JSON
ClientMessages ==
    [mime_type : {"text/plain", "audio/pcm", "video/webm"},
     data : {"My answer", EndInterview}]

\* the chunks the model streams for a reply, in the order it yields them; a
\* stream ends, or raises, after any number of them
ChunkTexts == <<"Tell me ", "more.">>

\* the texts of start_agent_session: the instruction of line 59, the model's
\* greeting and the greeting of line 89
IntroMessage == "Please start the mock interview."
Greeting == "Welcome! Please introduce yourself."
FallbackGreeting == "Hello! Let's begin the interview."

\* what client.stream(prompt=...) sends as "messages" (claude_client.py, line 144)
StreamMessages(prompt) == <<[role |-> "user", content |-> prompt]>>

\* how "await _run_judge_from_session_claude(session)" ends
JudgeEnds == {"judge_returned", "judge_raised"}

\* mutant: the session counts as expired at the deadline itself
IsSessionExpired_AtDeadline(start, duration, now) == now >= start + duration

\* is_session_expired, lines 279-285 (setup_duration always sets start_time)
IsSessionExpired(start, duration, now) == now > start + duration

\* websocket.send_text, receive_text and close raise once the socket is closed
WsOpen == ws_state = "open"

\* time passes
Tick ==
    /\ iv_now < MaxMinutes
    /\ iv_now' = iv_now + 1
    /\ UNCHANGED <<iv_start_time, iv_duration_minutes, iv_duration, ws_state,
                   ws_close_code, ws_sent, a2cVars, c2aVars, transcript,
                   conversation_history, db_interviews, judge_runs>>

\* lines 102-110: a2c sends the initial response
A2CStart ==
    /\ a2c_pc = "start"
    /\ IF WsOpen
       THEN ws_sent' = Append(ws_sent, "initial") /\ a2c_pc' = "initial_sent"
       ELSE UNCHANGED ws_sent /\ a2c_pc' = "done"             \* lines 157-158
    /\ UNCHANGED <<ivClock, iv_duration, ws_state, ws_close_code, a2c_steps,
                   c2aVars, transcript, conversation_history, db_interviews,
                   judge_runs>>

\* lines 113-116: a2c sends turn_complete
A2CTurnComplete ==
    /\ a2c_pc = "initial_sent"
    /\ IF WsOpen
       THEN ws_sent' = Append(ws_sent, "turn_complete") /\ a2c_pc' = "poll"
       ELSE UNCHANGED ws_sent /\ a2c_pc' = "done"
    /\ UNCHANGED <<ivClock, iv_duration, ws_state, ws_close_code, a2c_steps,
                   c2aVars, transcript, conversation_history, db_interviews,
                   judge_runs>>

\* lines 119-128 and 155: one iteration of the polling loop, up to the sleep
\* or to the sending of the goodbye message
A2CPoll ==
    /\ a2c_pc = "poll"
    /\ LET expired == IsSessionExpired(iv_start_time, iv_duration_minutes, iv_now)
       IN  IF ~expired
           THEN a2c_pc' = "sleeping" /\ UNCHANGED <<ws_sent, a2c_steps>>
           ELSE IF WsOpen
           THEN /\ ws_sent' = Append(ws_sent, "goodbye")
                /\ a2c_steps' = <<"expired", "goodbye">>
                /\ a2c_pc' = "goodbye_sent"
           ELSE /\ a2c_steps' = <<"expired", "send_raised">>
                /\ a2c_pc' = "done"
                /\ UNCHANGED ws_sent
    /\ UNCHANGED <<ivClock, iv_duration, ws_state, ws_close_code, c2aVars, transcript,
                   conversation_history, db_interviews, judge_runs>>

\* line 155: asyncio.sleep(0.5) is over
A2CWake ==
    /\ a2c_pc = "sleeping"
    /\ a2c_pc' = "poll"
    /\ UNCHANGED <<ivClock, iv_duration, ws_state, ws_close_code, ws_sent,
                   a2c_steps, c2aVars, transcript, conversation_history,
                   db_interviews, judge_runs>>

\* lines 130-134: a2c sends the "end" message
A2CSendEnd ==
    /\ a2c_pc = "goodbye_sent"
    /\ IF WsOpen
       THEN /\ ws_sent' = Append(ws_sent, "end")
            /\ a2c_steps' = Append(a2c_steps, "end")
            /\ a2c_pc' = "end_sent"
       ELSE /\ a2c_steps' = Append(a2c_steps, "send_raised")
            /\ a2c_pc' = "done"
            /\ UNCHANGED ws_sent
    /\ UNCHANGED <<ivClock, iv_duration, ws_state, ws_close_code, c2aVars,
                   transcript, conversation_history, db_interviews, judge_runs>>

\* lines 137-146: the duration is recorded, save_transcript writes the
\* interview or raises (Interview(...) or create_interview fails; the outer
\* except ends the function), then the judge is called
A2CSaveAndJudge ==
    /\ a2c_pc = "end_sent"
    /\ iv_duration' = iv_now - iv_start_time
    /\ \E saved \in BOOLEAN :
        IF saved
        THEN /\ db_interviews' = db_interviews + 1
             /\ judge_runs' = judge_runs + 1
             /\ a2c_steps' = a2c_steps \o <<"duration", "save_transcript", "judge_start">>
             /\ a2c_pc' = "judging"
        ELSE /\ a2c_steps' = a2c_steps \o <<"duration", "save_raised">>
             /\ a2c_pc' = "done"
             /\ UNCHANGED <<db_interviews, judge_runs>>
    /\ UNCHANGED <<ivClock, ws_state, ws_close_code, ws_sent, c2aVars,
                   transcript, conversation_history>>

\* lines 145-152: the judge returned or raised; the websocket is closed
A2CJudgeDone ==
    /\ a2c_pc = "judging"
    /\ \E end \in JudgeEnds :
        IF WsOpen
        THEN /\ ws_state' = "closed"
             /\ ws_close_code' = 1000
             /\ a2c_steps' = a2c_steps \o <<end, "close_1000">>
        ELSE /\ a2c_steps' = a2c_steps \o <<end, "close_raised">>
             /\ UNCHANGED <<ws_state, ws_close_code>>
    /\ a2c_pc' = "done"
    /\ UNCHANGED <<ivClock, iv_duration, ws_sent, c2aVars, transcript,
                   conversation_history, db_interviews, judge_runs>>

\* mutant: an audio message is recorded as the candidate's answer
Dispatch_AudioRecorded(msg, steps) ==
    IF msg.mime_type \in {"text/plain", "audio/pcm"}
    THEN /\ transcript' = Append(transcript, [role |-> "user", message |-> msg.data])
         /\ conversation_history' =
               Append(conversation_history, [role |-> "user", content |-> msg.data])
         /\ model_requests' = Append(model_requests, StreamMessages(msg.data))
         /\ stream_chunks' = 0
         /\ full_response' = ""
         /\ c2a_steps' = Append(steps, "stream")
         /\ c2a_pc' = "streaming"
         /\ UNCHANGED ws_sent
    ELSE /\ c2a_steps' = Append(steps, "mime_raised")
         /\ c2a_pc' = "done"
         /\ UNCHANGED <<ws_sent, transcript, conversation_history, stream_chunks,
                        full_response, model_requests>>

\* lines 211-273: the message is handled by its mime type; steps is what c2a
\* did for the message before
Dispatch(msg, steps) ==
    IF msg.mime_type = "text/plain"
    THEN /\ transcript' = Append(transcript, [role |-> "user", message |-> msg.data])
         /\ conversation_history' =
               Append(conversation_history, [role |-> "user", content |-> msg.data])
         /\ model_requests' = Append(model_requests, StreamMessages(msg.data))
         /\ stream_chunks' = 0
         /\ full_response' = ""
         /\ c2a_steps' = Append(steps, "stream")
         /\ c2a_pc' = "streaming"
         /\ UNCHANGED ws_sent
    ELSE IF msg.mime_type = "audio/pcm"
    THEN /\ IF WsOpen
            THEN /\ ws_sent' = Append(ws_sent, "audio_unsupported")
                 /\ c2a_steps' = Append(steps, "audio_unsupported")
                 /\ c2a_pc' = "receive"
            ELSE /\ c2a_steps' = Append(steps, "send_raised")
                 /\ c2a_pc' = "done"                          \* lines 275-276
                 /\ UNCHANGED ws_sent
         /\ UNCHANGED <<transcript, conversation_history, stream_chunks, full_response,
                        model_requests>>
    ELSE /\ c2a_steps' = Append(steps, "mime_raised")         \* line 273
         /\ c2a_pc' = "done"
         /\ UNCHANGED <<ws_sent, transcript, conversation_history, stream_chunks,
                        full_response, model_requests>>

\* lines 174-201 and 208-211: a message arrives. For the end_interview control
\* the duration is recorded and save_transcript writes the interview, then the
\* judge is called; when save_transcript raises, "except Exception: pass"
\* (line 208) lets the message go on to the mime type dispatch
C2AReceive ==
    /\ c2a_pc = "receive"
    /\ WsOpen
    /\ client_pending > 0
    /\ client_pending' = client_pending - 1
    /\ \E msg \in ClientMessages :
        /\ c2a_msg' = msg
        /\ IF msg.data = EndInterview
           THEN /\ iv_duration' = iv_now - iv_start_time
                /\ \E saved \in BOOLEAN :
                    IF saved
                    THEN /\ db_interviews' = db_interviews + 1
                         /\ judge_runs' = judge_runs + 1
                         /\ c2a_steps' = <<"duration", "save_transcript", "judge_start">>
                         /\ c2a_pc' = "judging"
                         /\ UNCHANGED <<ws_sent, transcript, conversation_history,
                                        stream_chunks, full_response, model_requests>>
                    ELSE /\ Dispatch(msg, <<"duration", "save_raised">>)
                         /\ UNCHANGED <<db_interviews, judge_runs>>
           ELSE /\ Dispatch(msg, <<>>)                \* json.loads(data) raises
                /\ UNCHANGED <<iv_duration, db_interviews, judge_runs>>
    /\ UNCHANGED <<ivClock, ws_state, ws_close_code, a2cVars>>

\* line 174: receive_text raises on a closed websocket (lines 275-276)
C2AReceiveRaises ==
    /\ c2a_pc = "receive"
    /\ ~WsOpen
    /\ c2a_pc' = "done"
    /\ UNCHANGED <<ivClock, iv_duration, ws_state, ws_close_code, ws_sent, a2cVars,
                   c2a_msg, c2a_steps, client_pending, stream_chunks, full_response,
                   model_requests, transcript, conversation_history, db_interviews,
                   judge_runs>>

\* lines 200-211: the judge returned or raised; the websocket is closed and
\* the loop left, or close raises (the socket is closed already) and line 208
\* lets the message go on to the mime type dispatch
C2AJudgeDone ==
    /\ c2a_pc = "judging"
    /\ \E end \in JudgeEnds :
        IF WsOpen
        THEN /\ ws_state' = "closed"
             /\ ws_close_code' = 1000
             /\ c2a_steps' = c2a_steps \o <<end, "close_1000">>
             /\ c2a_pc' = "done"
             /\ UNCHANGED <<ws_sent, transcript, conversation_history, stream_chunks,
                            full_response, model_requests>>
        ELSE /\ Dispatch(c2a_msg, c2a_steps \o <<end, "close_raised">>)
             /\ UNCHANGED <<ws_state, ws_close_code>>
    /\ UNCHANGED <<ivClock, iv_duration, a2cVars, c2a_msg, client_pending, db_interviews,
                   judge_runs>>

\* mutant: a chunk is put in front of the earlier ones
C2AChunk_Prepends ==
    /\ c2a_pc = "streaming"
    /\ stream_chunks < Len(ChunkTexts)
    /\ LET chunk == ChunkTexts[stream_chunks + 1]
       IN  /\ stream_chunks' = stream_chunks + 1
           /\ full_response' = chunk \o full_response
           /\ IF WsOpen
              THEN /\ ws_sent' = Append(ws_sent, chunk)
                   /\ c2a_steps' = Append(c2a_steps, "chunk")
                   /\ c2a_pc' = "streaming"
              ELSE /\ c2a_steps' = c2a_steps \o <<"send_raised", "send_raised">>
                   /\ c2a_pc' = "done"
                   /\ UNCHANGED ws_sent
    /\ UNCHANGED <<ivClock, iv_duration, ws_state, ws_close_code, a2cVars, c2a_msg,
                   client_pending, model_requests, transcript, conversation_history,
                   db_interviews, judge_runs>>

\* lines 225-239: the model streams its next chunk, which is added to
\* full_response and sent to the client; when the send raises, so does the one
\* of line 262 and the function ends (lines 275-276)
C2AChunk ==
    /\ c2a_pc = "streaming"
    /\ stream_chunks < Len(ChunkTexts)
    /\ LET chunk == ChunkTexts[stream_chunks + 1]
       IN  /\ stream_chunks' = stream_chunks + 1
           /\ full_response' = full_response \o chunk
           /\ IF WsOpen
              THEN /\ ws_sent' = Append(ws_sent, chunk)
                   /\ c2a_steps' = Append(c2a_steps, "chunk")
                   /\ c2a_pc' = "streaming"
              ELSE /\ c2a_steps' = c2a_steps \o <<"send_raised", "send_raised">>
                   /\ c2a_pc' = "done"
                   /\ UNCHANGED ws_sent
    /\ UNCHANGED <<ivClock, iv_duration, ws_state, ws_close_code, a2cVars, c2a_msg,
                   client_pending, model_requests, transcript, conversation_history,
                   db_interviews, judge_runs>>

\* mutant: the reply is stored in the history only
C2AStreamEnd_HistoryOnly ==
    /\ c2a_pc = "streaming"
    /\ IF WsOpen
       THEN /\ ws_sent' = Append(ws_sent, "turn_complete")
            /\ conversation_history' = Append(conversation_history,
                  [role |-> "assistant", content |-> full_response])
            /\ c2a_steps' = c2a_steps \o <<"turn_complete", "ai_entry">>
            /\ c2a_pc' = "receive"
            /\ UNCHANGED transcript
       ELSE /\ c2a_steps' = c2a_steps \o <<"send_raised", "send_raised">>
            /\ c2a_pc' = "done"
            /\ UNCHANGED <<ws_sent, conversation_history, transcript>>
    /\ UNCHANGED <<ivClock, iv_duration, ws_state, ws_close_code, a2cVars, c2a_msg,
                   client_pending, stream_chunks, full_response, model_requests,
                   db_interviews, judge_runs>>

\* lines 241-254: the stream is over; turn_complete is sent and the reply is
\* stored in the history and in the transcript. When the send raises, so does
\* the one of line 262
C2AStreamEnd ==
    /\ c2a_pc = "streaming"
    /\ IF WsOpen
       THEN /\ ws_sent' = Append(ws_sent, "turn_complete")
            /\ conversation_history' = Append(conversation_history,
                  [role |-> "assistant", content |-> full_response])
            /\ transcript' = Append(transcript, [role |-> "AI", message |-> full_response])
            /\ c2a_steps' = c2a_steps \o <<"turn_complete", "ai_entry">>
            /\ c2a_pc' = "receive"
       ELSE /\ c2a_steps' = c2a_steps \o <<"send_raised", "send_raised">>
            /\ c2a_pc' = "done"
            /\ UNCHANGED <<ws_sent, conversation_history, transcript>>
    /\ UNCHANGED <<ivClock, iv_duration, ws_state, ws_close_code, a2cVars, c2a_msg,
                   client_pending, stream_chunks, full_response, model_requests,
                   db_interviews, judge_runs>>

\* lines 256-262: the model call raises, at its start or between two chunks;
\* the apology is sent
C2AStreamError ==
    /\ c2a_pc = "streaming"
    /\ IF WsOpen
       THEN /\ ws_sent' = Append(ws_sent, "apology")
            /\ c2a_steps' = c2a_steps \o <<"stream_raised", "apology">>
            /\ c2a_pc' = "receive"
       ELSE /\ c2a_steps' = c2a_steps \o <<"stream_raised", "send_raised">>
            /\ c2a_pc' = "done"
            /\ UNCHANGED ws_sent
    /\ UNCHANGED <<ivClock, iv_duration, ws_state, ws_close_code, a2cVars, c2a_msg,
                   client_pending, stream_chunks, full_response, model_requests,
                   transcript, conversation_history, db_interviews, judge_runs>>

\* the steps of agent_to_client_messaging
A2CNext ==
    \/ A2CStart /\ UNCHANGED notIv
    \/ A2CTurnComplete /\ UNCHANGED notIv
    \/ A2CPoll /\ UNCHANGED notIv
    \/ A2CWake /\ UNCHANGED notIv
    \/ A2CSendEnd /\ UNCHANGED notIv
    \/ A2CSaveAndJudge /\ UNCHANGED notIv
    \/ A2CJudgeDone /\ UNCHANGED notIv

\* the steps of client_to_agent_messaging
C2ANext ==
    \/ C2AReceive /\ UNCHANGED notIv
    \/ C2AReceiveRaises /\ UNCHANGED notIv
    \/ C2AJudgeDone /\ UNCHANGED notIv
    \/ C2AChunk /\ UNCHANGED notIv
    \/ C2AStreamEnd /\ UNCHANGED notIv
    \/ C2AStreamError /\ UNCHANGED notIv

NextIV ==
    \/ Tick /\ UNCHANGED notIv
    \/ A2CNext
    \/ C2ANext

\* the session as start_agent_session returns it (lines 40-45 and 61-89): the
\* timer is set; when client.generate returned, the history and the transcript
\* hold the instruction and the greeting, when it raised they are empty
InitSession(messages, greetings, durations) ==
    /\ WfIdle /\ AgIdle /\ TgIdle /\ JdIdle /\ DdIdle /\ CfIdle /\ GcIdle
    /\ iv_now = 0
    /\ iv_start_time = 0
    /\ iv_duration_minutes \in durations
    /\ iv_duration = -1
    /\ ws_state = "open"
    /\ ws_close_code = 0
    /\ ws_sent = <<>>
    /\ a2c_pc = "start"
    /\ a2c_steps = <<>>
    /\ c2a_pc = "receive"
    /\ c2a_msg = NoMessage
    /\ c2a_steps = <<>>
    /\ client_pending = messages
    /\ stream_chunks = 0
    /\ full_response = ""
    /\ model_requests = <<>>
    /\ \E initial_response \in greetings :
        IF initial_response = Greeting
        THEN /\ conversation_history =
                    <<[role |-> "user", content |-> IntroMessage],
                      [role |-> "assistant", content |-> initial_response]>>
             /\ transcript = <<[role |-> "system", message |-> IntroMessage],
                               [role |-> "AI", message |-> initial_response]>>
        ELSE /\ conversation_history = <<>>
             /\ transcript = <<>>
    /\ db_interviews = 0
    /\ judge_runs = 0

InitIV == InitSession(MaxMessages, {Greeting, FallbackGreeting}, 1..(MaxMinutes - 1))

SpecIV == InitIV /\ [][NextIV]_vars

\* a session of the longest duration that began with the model's greeting and
\* whose client sends one message less
InitIVFair == InitSession(MaxMessages - 1, {Greeting}, {MaxMinutes - 1})

\* a session that began with either greeting and whose client sends one
\* message less
InitIVShort ==
    InitSession(MaxMessages - 1, {Greeting, FallbackGreeting}, 1..(MaxMinutes - 1))

SpecIVShort == InitIVShort /\ [][NextIV]_vars

\* the event loop runs every ready coroutine in turn and the clock advances
SpecIVFair ==
    InitIVFair /\ [][NextIV]_vars /\ WF_vars(Tick /\ UNCHANGED notIv) /\ WF_vars(A2CNext)

-----------------------------------------------------------------------------
(* Properties of run_preparation_workflow *)

Running == {a \in Agents : threads[a].status = "running"}

Succeeded == wf_pc = "done" /\ "success" \in DOMAIN wf_result /\ wf_result.success = TRUE

\* the workflow has taken the agent's result back from its thread
Processed(i) == i <= Len(returned)

\* the agent's call returned a value (it did not raise) that is no error dict
ReturnedNoError(a) ==
    /\ threads[a].status = "finished"
    /\ threads[a].out # "raise"
    /\ ~HasError(threads[a].out)

\* C1: the agents of a run are started in the order summarizer, search, question
\* generator, answer generator; an agent is started only when the one before it
\* has returned, none is started twice, and at most one is in progress at a time.
C1_FixedSequentialOrder ==
    /\ Len(invoked) <= Len(AgentOrder)
    /\ \A i \in 1..Len(invoked) : invoked[i].agent = AgentOrder[i]
    /\ \A i \in 2..Len(invoked) : threads[AgentOrder[i-1]].status = "finished"
    /\ \A i \in 1..Len(returned) : returned[i] = AgentOrder[i]
    /\ Len(returned) <= Len(invoked)
    /\ Cardinality(Running) <= 1

C1_Witness ==
    /\ Len(invoked) = 4
    /\ Running = {"answer_generator"}
    /\ returned = <<"summarizer", "search", "question_generator">>

\* C2: run_preparation_workflow always ends by returning a dict, never by an
\* exception: success=True, or success=False with an "error" key, and in both
\* cases the keys user_id, session_id and workflow_id.
C2_AlwaysReturnsResultDict ==
    /\ wf_pc = "done" =>
          /\ {"success", "user_id", "session_id", "workflow_id"} \subseteq DOMAIN wf_result
          /\ wf_result.user_id = wf_args.user_id
          /\ \/ wf_result.success = TRUE
             \/ wf_result.success = FALSE /\ "error" \in DOMAIN wf_result
    /\ wf_pc # "done" => wf_result = NoResult
    /\ wf_pc \in Agents => threads[wf_pc].status # "idle"

C2_Witness ==
    /\ wf_pc = "done"
    /\ wf_result.success = FALSE
    /\ wf_result.error = "exception"
    /\ \E a \in Agents : threads[a].out = "raise"

\* C3: an error dict from the summarizer, the question generator or the answer
\* generator stops the workflow at that step: no later agent is started, the
\* personal experience is not saved, and the result is success=False with an
\* error message that names the agent.
C3_AgentErrorStopsWorkflow ==
    \A i \in {1, 3, 4} :
        (Processed(i) /\ HasError(threads[AgentOrder[i]].out)) =>
            /\ Len(invoked) = i
            /\ save_pe_calls = 0
            /\ wf_pc = "done"
            /\ "error" \in DOMAIN wf_result
            /\ wf_result.success = FALSE
            /\ wf_result.error = CASE i = 1 -> "Summarizer error"
                                   [] i = 3 -> "Question generator error"
                                   [] i = 4 -> "Answer generator error"

C3_Witness ==
    /\ Processed(3)
    /\ HasError(threads["question_generator"].out)
    /\ wf_pc = "done"

C5_SuccessImpliesAllFourOk ==
    Succeeded =>
        /\ \A a \in Agents : ReturnedNoError(a)
        /\ <<wf_result.user_id, wf_result.workflow_id>> \in db_qas

\* C5 (amended): success=True implies that the summarizer, the question generator
\* and the answer generator returned a non-error result, that the search agent
\* returned (possibly an error dict, which the workflow replaced by {}), and that
\* the question/answer records were written under the run's user_id and
\* workflow_id before the result was returned.
C5_SuccessImpliesThreeOkAndSaved ==
    Succeeded =>
        /\ \A a \in Agents \ {"search"} : ReturnedNoError(a)
        /\ threads["search"].status = "finished"
        /\ threads["search"].out # "raise"
        /\ <<wf_result.user_id, wf_result.workflow_id>> \in db_qas

C5_Witness ==
    /\ Succeeded
    /\ HasError(threads["search"].out)
    /\ <<wf_result.user_id, wf_result.workflow_id>> \in db_qas

\* C6: success=True implies that the personal-experience record of the run has
\* been persisted under its user_id and workflow_id.
C6_SuccessImpliesExperiencePersisted ==
    Succeeded => <<wf_result.user_id, wf_result.workflow_id>> \in db_pe

-----------------------------------------------------------------------------
(* Properties of the agent functions *)

\* C7: each Claude agent function returns a value (the parsed JSON or an error
\* dict) for any inputs and any model reply or API failure; it never raises.
C7_AgentsNeverRaise ==
    ag_pc = "done" => ag_out.kind = "return"

\* the model answered exactly the questions it was sent, in the order sent
FaithfulReply ==
    LET qo == QuestionsOnly(tg_questions)
    IN  /\ Len(tg_reply) = Len(qo)
        /\ \A i \in 1..Len(qo) :
             /\ tg_reply[i].type = "dict"
             /\ tg_reply[i].has_question
             /\ tg_reply[i].question = qo[i]

\* no two input questions have the same text
DistinctQuestions ==
    \A i, j \in 1..Len(tg_questions) :
        (i # j /\ tg_questions[i].type = "dict" /\ tg_questions[j].type = "dict")
            => tg_questions[i].question # tg_questions[j].question

\* the tags an answer built from the i-th element of the answer array is to get
TagsOfInputQuestion(i) ==
    IF i > Len(tg_questions) \/ tg_questions[i].type # "dict" THEN <<>>
    ELSE CASE tg_questions[i].tags.kind = "list" -> tg_questions[i].tags.v
           [] tg_questions[i].tags.kind = "str" -> <<tg_questions[i].tags.v[1]>>
           [] OTHER -> <<>>

\* C9, first half: the item built from the i-th element of the answer array gets
\* the tags of the i-th input question (a string becomes a one-element list, any
\* other non-list becomes []), never the tags the model returned.
TagsByPosition ==
    tg_pc = "done" =>
        \A k \in 1..Len(tg_result) :
            tg_result[k].tags = TagsOfInputQuestion(tg_result[k].from)

\* C9, second half: every returned answer carries the tags of the input question
\* it answers (for a model that answers the questions it was sent, in order).
TagsOfAnsweredQuestion ==
    (tg_pc = "done" /\ FaithfulReply /\ DistinctQuestions) =>
        \A k \in 1..Len(tg_result) : \A j \in 1..Len(tg_questions) :
            (/\ tg_questions[j].type = "dict"
             /\ tg_questions[j].has_question
             /\ tg_questions[j].question = tg_result[k].question)
                => tg_result[k].tags = TagsOfInputQuestion(j)

\* C9: on both paths the answer built from the i-th element of the model's answer
\* array gets the tags of the i-th input question, so every returned answer
\* carries the tags of the input question it answers.
C9_AnswersKeepQuestionTags == TagsByPosition /\ TagsOfAnsweredQuestion

-----------------------------------------------------------------------------
(* Properties of the judge *)

\* C8: the judge returns either the validated feedback dict or a dict with an
\* "error" key; a reply that cannot be parsed or fails schema validation is
\* returned to the caller as an error dict.
C8_JudgeReturnsFeedbackOrError ==
    jd_pc = "done" =>
        /\ jd_result.kind \in {"feedback", "error_dict"}
        /\ jd_parse \in {"invalid", "error"} => jd_result.kind = "error_dict"

Saved == db_feedback.kind = "feedback"

\* the log is: the link checks, then the deduplication, then the save
CheckedThenDedupThenSaved ==
    /\ Len(jd_events) = Len(jd_checks) + 2
    /\ \A n \in 1..Len(jd_checks) : jd_events[n] = "check_link"
    /\ jd_events[Len(jd_checks) + 1] = "deduplicate"
    /\ jd_events[Len(jd_checks) + 2] = "save"

\* the saved feedback went through the deduplication after the link repair
NoDuplicateSavedLinks ==
    \A k, l \in 1..Len(db_feedback.resources) :
        k # l => db_feedback.resources[k].link # db_feedback.resources[l].link

\* a saved resource whose link failed the check carries what search_ddgs returned
SavedFailedCarrySearchResult ==
    \A k \in 1..Len(db_feedback.resources) :
        LET r == db_feedback.resources[k]
            c == jd_checks[r.id]
        IN  c.failed =>
                /\ r.title = c.ddgs.title
                /\ r.link = c.ddgs.link
                /\ StartsWithHttp(r.link)

\* a saved resource whose link failed the check does not have its original link
SavedFailedLinkChanged ==
    \A k \in 1..Len(db_feedback.resources) :
        LET r == db_feedback.resources[k]
            c == jd_checks[r.id]
        IN  c.failed => r.link # c.original

\* C10 (as claimed): feedback is saved only when the parse status is "valid" and
\* after link validation and then deduplication; no saved resource that failed
\* the link check keeps its original link: it carries the title and link
\* returned by search_ddgs, a link that starts with "http".
C10_SavedFailedLinksReplaced ==
    Saved =>
        /\ jd_parse = "valid"
        /\ CheckedThenDedupThenSaved
        /\ NoDuplicateSavedLinks
        /\ SavedFailedCarrySearchResult
        /\ SavedFailedLinkChanged

\* C10 (amended): feedback is saved only when the parse status is "valid" and
\* after link validation and then deduplication; every saved resource that
\* failed the link check carries the title and link returned by search_ddgs, a
\* link that starts with "http" (it is not checked again and may be the same URL
\* as the original link).
C10_SavedFailedLinksFromSearch ==
    Saved =>
        /\ jd_parse = "valid"
        /\ CheckedThenDedupThenSaved
        /\ NoDuplicateSavedLinks
        /\ SavedFailedCarrySearchResult

C10_Witness ==
    /\ Saved
    /\ \E k \in 1..Len(db_feedback.resources) :
          /\ jd_checks[db_feedback.resources[k].id].failed
          /\ db_feedback.resources[k].link # jd_checks[db_feedback.resources[k].id].original
    /\ \E n \in 1..Len(jd_checks) : ~jd_checks[n].failed

-----------------------------------------------------------------------------
(* Properties of deduplicate_resources *)

\* the resources of the input dict, [] when it has no "resources" key
InputResources == IF "resources" \in DOMAIN dd_in THEN dd_in.resources ELSE <<>>

\* the resources of the input whose link is non-empty and occurs at no earlier
\* position, in their original order (id is the position in the input)
FirstOccurrences ==
    SelectSeq(InputResources,
              LAMBDA r : /\ r.link \notin {"None", ""}
                         /\ \A j \in 1..(r.id - 1) : InputResources[j].link # r.link)

\* C11: deduplicate_resources leaves in feedback_json["resources"] exactly the
\* first occurrence of each non-empty link, in the original relative order: no
\* two remaining resources share a link, resources with a missing or empty link
\* are dropped, every other key of the feedback is unchanged, and a second
\* application changes nothing.
C11_DedupKeepsFirstOccurrences ==
    dd_pc \in {"once", "twice"} =>
        /\ "resources" \in DOMAIN dd_out
        /\ dd_out.resources = FirstOccurrences
        /\ \A i, j \in 1..Len(dd_out.resources) :
              dd_out.resources[i].link = dd_out.resources[j].link => i = j
        /\ \A i \in 1..Len(dd_out.resources) :
              dd_out.resources[i].link \notin {"None", ""}
        /\ DOMAIN dd_out = DOMAIN dd_in \cup {"resources"}
        /\ \A k \in DOMAIN dd_in \ {"resources"} : dd_out[k] = dd_in[k]
        /\ dd_pc = "twice" => dd_again = dd_out

\* an input with a repeated link and a missing or empty link has been
\* deduplicated twice
C11_Witness ==
    /\ dd_pc = "twice"
    /\ \E i, j \in 1..Len(InputResources) :
          /\ i < j
          /\ InputResources[i].link = InputResources[j].link
          /\ InputResources[i].link \notin {"None", ""}
    /\ \E i \in 1..Len(InputResources) : InputResources[i].link \in {"None", ""}
    /\ Len(dd_out.resources) = 1
    /\ dd_out.summary = dd_in.summary

-----------------------------------------------------------------------------
(* Properties of ClaudeConfig and of the factory functions *)

\* the texts that equal "true" when case is ignored
TrueIgnoringCase == {"true", "True", "TRUE"}

\* C13: each agent-specific flag of ClaudeConfig equals USE_CLAUDE when its own
\* environment variable is unset, and otherwise is true exactly when its own
\* variable equals "true" ignoring case, whatever USE_CLAUDE is; USE_CLAUDE
\* itself is false when unset.
C13_AgentFlagsDefaultToUseClaude ==
    cfg_pc = "imported" =>
        /\ process_env["USE_CLAUDE"] = Unset => cfg["USE_CLAUDE"] = FALSE
        /\ \A k \in AgentFlags :
              IF process_env[k] = Unset
              THEN cfg[k] = cfg["USE_CLAUDE"]
              ELSE cfg[k] = (process_env[k] \in TrueIgnoringCase)

\* ClaudeConfig was evaluated with USE_CLAUDE on, one agent flag left unset and
\* another switched off by its own variable
C13_Witness ==
    /\ cfg_pc = "imported"
    /\ cfg["USE_CLAUDE"] = TRUE
    /\ process_env["SUMMARIZER_USE_CLAUDE"] = Unset
    /\ cfg["SUMMARIZER_USE_CLAUDE"] = TRUE
    /\ process_env["JUDGE_USE_CLAUDE"] = "false"
    /\ cfg["JUDGE_USE_CLAUDE"] = FALSE

\* the feature flag the claim assigns to each factory function
OwnFlag ==
    [function \in FactoryFunctions |->
        IF function = "summarize_resume" THEN "SUMMARIZER_USE_CLAUDE"
        ELSE IF function = "search_interview_questions" THEN "SEARCH_USE_CLAUDE"
        ELSE IF function = "generate_custom_questions" THEN "QUESTION_GEN_USE_CLAUDE"
        ELSE IF function = "run_judge_from_session" THEN "JUDGE_USE_CLAUDE"
        ELSE IF function \in {"run_preparation_workflow",
                              "run_preparation_workflow_sync"} THEN "USE_CLAUDE"
        ELSE "ANSWER_GEN_USE_CLAUDE"]

\* C12: each provider-selecting factory function invokes exactly one
\* implementation per call, the Claude one if and only if its own feature flag
\* in ClaudeConfig is true and the Gemini one otherwise, passes its arguments
\* through unchanged and returns that implementation's result unchanged.
C12_FactoryInvokesFlaggedImplementation ==
    /\ fc_pc = "idle" => fc_invoked = <<>>
    /\ fc_pc \in {"in_impl", "done"} =>
        /\ Len(fc_invoked) = 1
        /\ fc_invoked[1].impl =
              (IF cfg[OwnFlag[fc_call.function]] THEN "claude" ELSE "gemini")
        /\ fc_invoked[1].function = fc_call.function
        /\ fc_invoked[1].args = fc_call.args
    /\ fc_pc = "in_impl" => fc_result = "none"
    /\ fc_pc = "done" => fc_result = fc_invoked[1].out

\* with USE_CLAUDE on and the summarizer switched off by its own variable, the
\* summarizer factory has returned the result of the Gemini implementation
C12_Witness ==
    /\ fc_pc = "done"
    /\ cfg["USE_CLAUDE"] = TRUE
    /\ cfg["SUMMARIZER_USE_CLAUDE"] = FALSE
    /\ fc_call.function = "summarize_resume"
    /\ fc_invoked[1].impl = "gemini"
    /\ fc_result = "dict"

-----------------------------------------------------------------------------
(* Properties of get_claude_client *)

\* C14: get_claude_client is a process-wide singleton: over any interleaving of
\* callers, including agents in different worker threads, at most one
\* ClaudeClient is ever constructed and every call returns that same instance;
\* when construction raises, nothing is cached.
C14_SingleClientInstance ==
    /\ gc_constructed <= 1
    /\ \A i, j \in 1..Len(gc_returns) :
          (~gc_returns[i].raised /\ ~gc_returns[j].raised)
              => gc_returns[i].client = gc_returns[j].client
    /\ ~gc_api_key => gc_client = 0

\* the settings present only in backend/.env
OnlyInDotenv(k) == process_env[k] = Unset /\ dotenv[k] # Unset

\* C15: a setting that is present only in backend/.env (ANTHROPIC_API_KEY,
\* USE_CLAUDE, TAVILY_API_KEY) is visible in ClaudeConfig when an agent or
\* ClaudeClient reads it after the .env file was loaded: the value read is the
\* one ClaudeConfig has when evaluated on the environment with the file loaded.
C15_DotenvSettingVisibleWhenRead ==
    \A i \in 1..Len(cfg_reads) :
        (cfg_reads[i].loaded /\ OnlyInDotenv(cfg_reads[i].key))
            => cfg_reads[i].value =
                   ClaudeConfig(LoadDotenv(process_env, dotenv))[cfg_reads[i].key]

-----------------------------------------------------------------------------
(* Properties of the cleanup of the judge *)

\* C18: every call of _run_judge_from_session_claude attempts to delete the
\* session exactly once before it returns, whatever the outcome (valid or
\* invalid feedback, an exception in the model call, the link repair or the
\* database write), and a failure of that deletion does not change the value
\* returned.
C18_SessionDeletedOnceBeforeReturn ==
    /\ jd_deletes <= 1
    /\ jd_pc = "done" =>
        /\ jd_deletes = 1
        /\ jd_result = jd_pending
        /\ jd_result.kind \in {"feedback", "None", "error_dict"}

\* a call whose deletion failed has returned its valid feedback
C18_Witness ==
    /\ jd_pc = "done"
    /\ jd_delete_raised
    /\ jd_deletes = 1
    /\ jd_result.kind = "feedback"
    /\ Len(jd_result.resources) = 1

-----------------------------------------------------------------------------
(* Properties of the interview session *)

\* c2a is done with the end_interview control message it received
EndInterviewHandled ==
    /\ c2a_msg.data = EndInterview
    /\ c2a_pc # "judging"

\* C16: when the client sends an end_interview control message,
\* client_to_agent_messaging records the duration, saves the transcript, runs
\* the judge, then closes the websocket with code 1000 and stops reading
\* messages, whether the judge fails or not.
C16_EndInterviewSavesJudgesCloses ==
    EndInterviewHandled =>
        /\ c2a_pc = "done"
        /\ \E end \in JudgeEnds :
              c2a_steps = <<"duration", "save_transcript", "judge_start", end,
                            "close_1000">>
        /\ ws_close_code = 1000

\* the deadline of the session has passed
Expired == iv_now > iv_start_time + iv_duration_minutes

\* a2c is in its polling loop
Polling == a2c_pc \in {"poll", "sleeping"}

\* C19: an interview session with a start time and a duration always ends:
\* the polling loop of agent_to_client_messaging goes on to its next sleep
\* exactly while the current time has not passed start_time + duration_minutes,
\* a deadline that has passed stays passed, an iteration that finds the session
\* expired leaves the loop for good, and after the deadline the function
\* terminates.
C19_ExpiredSessionEnds ==
    /\ [][(a2c_pc = "poll" /\ a2c_pc' # "poll") =>
             ((a2c_pc' = "sleeping") <=> ~Expired)]_vars
    /\ [][Expired => Expired']_vars
    /\ [][(a2c_steps # <<>> \/ a2c_steps' # <<>>) => ~Polling']_vars
    /\ Expired ~> (a2c_pc = "done")

\* the loop polled before the deadline, and after it a2c found the session
\* expired and ran to its end
C19_Witness ==
    /\ Expired
    /\ a2c_pc = "done"
    /\ Len(a2c_steps) > 0
    /\ a2c_steps[1] = "expired"
    /\ a2c_steps[Len(a2c_steps)] = "close_1000"

\* a2c found the session expired and has returned
ExpiryHandled == a2c_pc = "done" /\ a2c_steps # <<>>

\* in what a2c did, every step named first comes before every step named after
Before(first, after) ==
    \A i, j \in 1..Len(a2c_steps) :
        (a2c_steps[i] = first /\ a2c_steps[j] = after) => i < j

\* C17: whenever agent_to_client_messaging detects that the session has
\* expired, the transcript is saved to the database and the judge is run on the
\* session before the function returns; the goodbye text is sent before the
\* "end" message, and the websocket is closed with code 1000 last.
C17_ExpirySavesAndJudges ==
    ExpiryHandled =>
        /\ db_interviews >= 1
        /\ judge_runs >= 1
        /\ Before("goodbye", "end")
        /\ Before("end", "close_1000")
        /\ Before("save_transcript", "close_1000")
        /\ Before("judge_start", "close_1000")

\* C20: for one interview session, with a2c and c2a running concurrently, the
\* transcript is saved to the database at most once and the judge is run at
\* most once, over every interleaving of session expiry and an end_interview
\* control message.
C20_SavedAndJudgedAtMostOnce ==
    /\ db_interviews <= 1
    /\ judge_runs <= 1

\* the payload of the end_interview control message is a user entry of the
\* transcript or of the history, or the prompt of a model request
EndInterviewAnswered ==
    \/ \E i \in 1..Len(transcript) :
          transcript[i] = [role |-> "user", message |-> EndInterview]
    \/ \E i \in 1..Len(conversation_history) :
          conversation_history[i] = [role |-> "user", content |-> EndInterview]
    \/ \E i \in 1..Len(model_requests) :
          model_requests[i][Len(model_requests[i])].content = EndInterview

\* C21: an end_interview control message is never treated as a candidate
\* answer: in every execution, including one where saving the transcript
\* raises, its payload is not appended to the transcript or the conversation
\* history as a user message and is not sent to the model.
C21_EndInterviewNeverAnAnswer == ~EndInterviewAnswered

\* every entry of the history is among the messages of the request
CarriesHistory(request, history) ==
    \A k \in 1..Len(history) : \E j \in 1..Len(request) : request[j] = history[k]

\* C23: the conversation history is the context of the interview's model
\* calls: the request sent to the model for a user message contains the
\* session's user and assistant turns up to that message, not only the latest
\* message.
C23_RequestsCarryHistory ==
    [][model_requests' # model_requests =>
          CarriesHistory(model_requests'[Len(model_requests')], conversation_history')]_vars

\* the history role of a transcript role (lines 71-82, 214-218, 248-252)
HistoryRole(role) == IF role = "AI" THEN "assistant" ELSE "user"

\* C24: at every point where no append is in progress, the transcript and
\* the conversation history have the same length and their k-th entries carry
\* the same text, with transcript roles system/user mapped to history role
\* user and AI mapped to assistant; after start_agent_session, whether or not
\* the greeting call succeeded, and after every processed client message.
C24_TranscriptMirrorsHistory ==
    /\ Len(transcript) = Len(conversation_history)
    /\ \A k \in 1..Len(transcript) :
          conversation_history[k] =
              [role |-> HistoryRole(transcript[k].role), content |-> transcript[k].message]

\* after a failed greeting call, a text message was answered by the model
C24_Witness ==
    /\ c2a_pc = "receive"
    /\ Len(transcript) = 2
    /\ transcript[1].role = "user"
    /\ transcript[2] = [role |-> "AI", message |-> "Tell me more."]

\* a websocket message that is a chunk of a model reply
IsChunk(m) == \E k \in 1..Len(ChunkTexts) : m = ChunkTexts[k]

\* the last n chunks among the messages sent
LastChunks(sent, n) ==
    LET chunks == SelectSeq(sent, IsChunk)
    IN  SubSeq(chunks, Len(chunks) - n + 1, Len(chunks))

\* the texts of a sequence, joined in order
RECURSIVE Concat(_)
Concat(texts) == IF texts = <<>> THEN "" ELSE Head(texts) \o Concat(Tail(texts))

\* a text message is recorded as a user entry in the step that calls the model
\* with it
UserEntryBeforeModelCall ==
    [][model_requests' # model_requests =>
          /\ model_requests' = Append(model_requests, StreamMessages(c2a_msg'.data))
          /\ transcript' =
                Append(transcript, [role |-> "user", message |-> c2a_msg'.data])]_vars

\* the chunks received so far were sent to the client in the order received
ChunksForwardedInOrder ==
    [](c2a_pc = "streaming" =>
          LastChunks(ws_sent, stream_chunks) = SubSeq(ChunkTexts, 1, stream_chunks))

\* an AI entry is appended in the step that sends turn_complete after the
\* chunks, and it is the one entry with the concatenation of the chunks
AIEntryAfterTurnComplete ==
    [][(c2a_pc = "streaming" /\ transcript' # transcript) =>
          /\ ws_sent' = Append(ws_sent, "turn_complete")
          /\ transcript' = Append(transcript,
                [role |-> "AI", message |-> Concat(LastChunks(ws_sent, stream_chunks))])
          /\ c2a_pc' = "receive"]_vars

\* the stream or a send of the try block of lines 221-254 raises in this step
StreamFails ==
    /\ c2a_pc = "streaming"
    /\ c2a_pc' # "streaming"
    /\ ws_sent' # Append(ws_sent, "turn_complete")

\* C22 as stated: for each text/plain message the user entry is appended
\* before the model is called, the chunks are forwarded in the order received,
\* turn_complete is sent after the last chunk and only then one AI entry with
\* the concatenation of the chunks is appended; if streaming fails no AI entry
\* is appended, the apology is sent and the loop goes on to the next message.
C22_FailedStreamApologisesAndGoesOn ==
    /\ UserEntryBeforeModelCall
    /\ ChunksForwardedInOrder
    /\ AIEntryAfterTurnComplete
    /\ [][StreamFails =>
             /\ transcript' = transcript
             /\ conversation_history' = conversation_history
             /\ ws_sent' = Append(ws_sent, "apology")
             /\ c2a_pc' = "receive"]_vars

\* C22, amended: as stated, except that when streaming fails the apology is
\* sent and the loop goes on only while the websocket is open; on a closed
\* websocket nothing is sent and the function ends.
C22_TextTurn ==
    /\ UserEntryBeforeModelCall
    /\ ChunksForwardedInOrder
    /\ AIEntryAfterTurnComplete
    /\ [][StreamFails =>
             /\ transcript' = transcript
             /\ conversation_history' = conversation_history
             /\ IF WsOpen
                THEN ws_sent' = Append(ws_sent, "apology") /\ c2a_pc' = "receive"
                ELSE ws_sent' = ws_sent /\ c2a_pc' = "done"]_vars

\* a text message was answered in two chunks
C22_Witness ==
    /\ c2a_pc = "receive"
    /\ c2a_msg = [mime_type |-> "text/plain", data |-> "My answer"]
    /\ c2a_steps = <<"stream", "chunk", "chunk", "turn_complete", "ai_entry">>
    /\ transcript[Len(transcript)] = [role |-> "AI", message |-> "Tell me more."]
    /\ transcript[Len(transcript) - 1] = [role |-> "user", message |-> "My answer"]

\* c2a receives a message in this step
Received == client_pending' = client_pending - 1

\* what the claim says of a received audio/pcm message
AudioRejected ==
    /\ transcript' = transcript
    /\ conversation_history' = conversation_history
    /\ model_requests' = model_requests
    /\ ws_sent' = Append(ws_sent, "audio_unsupported")
    /\ c2a_pc' = "receive"

\* what the claim says of a received message of another mime type
OtherMimeEndsFunction ==
    /\ c2a_pc' = "done"
    /\ db_interviews' = db_interviews
    /\ judge_runs' = judge_runs
    /\ ws_state' = ws_state
    /\ ws_sent' = ws_sent

FirstCallRaised ==
    /\ Len(ag_replies) >= 1
    /\ \/ ag_replies[1].form = "api_error"
       \/ ExtractJson(ag_replies[1]).kind = "raise"

\* C25: each Claude agent (summarizer, search, question generator, answer
\* generator) makes at most two model calls per invocation: the second
\* (plain-text) call is made only when the first (JSON) call raised, whether
\* from the API or from JSON extraction, and when the second call also raises
\* the agent returns a dict with an "error" key without a third call.
C25_AtMostTwoModelCalls ==
    /\ ag_calls <= 2
    /\ ag_calls = 2 => FirstCallRaised
    /\ ag_pc = "text_call" <=> (ag_calls = 2 /\ Len(ag_replies) = 1)
    /\ ag_pc = "done" =>
          /\ Len(ag_replies) = ag_calls
          /\ (ag_calls = 1 /\ ag_out.kind = "return") => ~FirstCallRaised
          /\ (ag_calls = 2 /\ ag_replies[2].form = "api_error") =>
                ag_out = Returned("error_dict")

\* both calls of an agent raised and it returned the error dict
C25_Witness ==
    /\ ag_pc = "done"
    /\ ag_calls = 2
    /\ ag_replies[1].form = "none"
    /\ ag_replies[2].form = "api_error"
    /\ ag_out = Returned("error_dict")

\* run_preparation_workflow has returned a result
WorkflowReturned == wf_pc = "done"

\* the session_id the caller gave is not empty
SessionIdGiven == Truthy(wf_args.session_id)

\* the workflow_id of every call of the answer generator and of every record
\* written to the database is id
UsedEverywhere(id) ==
    /\ \A i \in 1..Len(invoked) :
          invoked[i].agent = "answer_generator" => invoked[i].workflow_id = id
    /\ \A rec \in db_qas \cup db_pe : rec[2] = id

\* C27: in every result of run_preparation_workflow, success or failure,
\* workflow_id equals session_id; a non-empty session_id given by the caller is
\* returned unchanged, and when none is given the generated id is a string of
\* exactly 20 characters of the alphabet that is also the workflow_id passed
\* to the answer generator and to the database writes.
C27_WorkflowIdIsSessionId ==
    WorkflowReturned =>
        /\ wf_result.workflow_id = wf_result.session_id
        /\ SessionIdGiven => wf_result.session_id = wf_args.session_id
        /\ (~SessionIdGiven /\ workflow_id # "unbound") =>
              /\ wf_result.session_id = workflow_id
              /\ Len(workflow_id) = IdLength
              /\ \E choices \in SecretsChoices :
                    /\ \A i \in 1..IdLength : choices[i] \in 1..Len(Alphabet)
                    /\ workflow_id = JoinChoices(choices, IdLength)
        /\ UsedEverywhere(wf_result.workflow_id)

\* a run without a session_id succeeded and wrote its records under the
\* generated id
C27_Witness ==
    /\ WorkflowReturned
    /\ ~SessionIdGiven
    /\ wf_result.success
    /\ Len(wf_result.workflow_id) = IdLength
    /\ <<wf_args.user_id, wf_result.workflow_id>> \in db_qas \cap db_pe

====
